---- MODULE Spec2Model ----
(***************************************************************************)
(* Model of the translation-and-routing engine of the flexible proxy:      *)
(*   - handle_streaming (src/server.py), the Streaming Reconstructor, as a *)
(*     coroutine that is resumed once per upstream fragment;               *)
(*   - MessagesRequest.validate_model_field (src/server.py) over the       *)
(*     ConfigManager alias configuration (src/config.py);                  *)
(*   - convert_anthropic_to_litellm and convert_litellm_to_anthropic       *)
(*     (src/server.py), the request and the response translator;           *)
(*   - create_message and forward_to_anthropic (src/server.py), one        *)
(*     request to /v1/messages with the proxy enabled or disabled.         *)
(***************************************************************************)
EXTENDS Integers, Sequences, FiniteSets, TLC

(* ------------------------------ bounds --------------------------------- *)

\* Longest upstream fragment sequence that is explored.
MaxChunks == 3

\* Backend tool-call indices range over 0..MaxToolIdx.
MaxToolIdx == 1

\* Longest inbound model token, in name segments.
MaxTokenLen == 2

(* ------------------------- values of the source ------------------------ *)

\* Python's None where the source compares an index with None.
NoneIdx == -1

\* Python's None for string-valued attributes (delta.content, finish_reason).
NoneStr == "<None>"

\* A delta.content that is not a string: `accumulated_text += delta_content`
\* raises TypeError inside the per-chunk try (server.py:1233, 1408-1411).
BadContent == "<not-a-str>"

\* Local variable that has not been bound yet.
Unbound == "<unbound>"

Texts == {"He", "llo"}

\* Token counts a backend usage object reports.
UsageCounts == {7}

\* One entry of delta.tool_calls: backend index, id, function name and
\* arguments; arguments are a str fragment or (isDict) a dict.
tool_id(i) == IF i = 0 THEN "call_0" ELSE IF i = 1 THEN "call_1" ELSE "call_n"

tool_name(i) == IF i = 0 THEN "f" ELSE IF i = 1 THEN "g" ELSE "h"

ToolCall(i, isDict, args) ==
    [index |-> i, id |-> tool_id(i), name |-> tool_name(i),
     isDict |-> isDict, arguments |-> args]

\* The argument payloads: an empty str, a str fragment, a dict {"a": 1}.
ToolCallFrags ==
    { ToolCall(i, FALSE, "") : i \in {0} } \cup
    { ToolCall(i, FALSE, "{\"a\":1}") : i \in 0..MaxToolIdx } \cup
    { ToolCall(i, TRUE, "a=1") : i \in {MaxToolIdx} }

\* json.dumps of the dict payloads (default separators ", " and ": ").
json_dumps(d) == IF d = "a=1" THEN "{\"a\": 1}" ELSE "{}"

\* An upstream chunk.  has_choices = FALSE is a chunk with an empty choices
\* list (a usage-only chunk).
Chunk(hc, c, tcs, fr, hu, ct) ==
    [has_choices |-> hc, content |-> c, tool_calls |-> tcs,
     finish_reason |-> fr, has_usage |-> hu,
     prompt_tokens |-> IF hu THEN 3 ELSE 0, completion_tokens |-> ct]

Chunks ==
    \* text (or no content) with an optional finish
    { Chunk(TRUE, c, <<>>, fr, FALSE, 0) :
        c \in Texts \cup {NoneStr},
        fr \in {NoneStr, "stop", "length", "tool_calls"} } \cup
    \* an empty content, and a malformed content on a finishing chunk
    { Chunk(TRUE, "", <<>>, NoneStr, FALSE, 0),
      Chunk(TRUE, BadContent, <<>>, "stop", FALSE, 0) } \cup
    \* tool-call fragments, with an optional finish
    { Chunk(TRUE, NoneStr, <<tc>>, fr, FALSE, 0) :
        tc \in ToolCallFrags, fr \in {NoneStr, "tool_calls"} } \cup
    \* text and a tool call packed in one delta
    { Chunk(TRUE, "He", <<ToolCall(0, FALSE, "{\"a\":1}")>>, NoneStr, FALSE, 0) } \cup
    \* two tool calls in one delta
    { Chunk(TRUE, NoneStr,
            <<ToolCall(0, FALSE, "{\"a\":1}"), ToolCall(MaxToolIdx, TRUE, "a=1")>>,
            NoneStr, FALSE, 0) } \cup
    \* usage reports: alone (no choices) or on the finishing chunk
    { Chunk(FALSE, NoneStr, <<>>, NoneStr, TRUE, n) : n \in UsageCounts } \cup
    { Chunk(TRUE, NoneStr, <<>>, fr, TRUE, n) :
        fr \in {"stop", "content_filter"}, n \in UsageCounts }

(* ------------------------------- events -------------------------------- *)

\* One SSE event: its type, the content-block index (or -1), a kind (block
\* type, delta type or stop_reason), a text (delta text, partial_json or
\* "id/name") and the usage.output_tokens it carries.
Ev(t, i, k, x, n) == [type |-> t, index |-> i, kind |-> k, text |-> x, tokens |-> n]

MessageStart == Ev("message_start", -1, "message", "", 0)

Ping == Ev("ping", -1, "", "", 0)

TextBlockStart == Ev("content_block_start", 0, "text", "", 0)

ToolBlockStart(i, id, name) == Ev("content_block_start", i, "tool_use", id \o "/" \o name, 0)

TextDelta(txt) == Ev("content_block_delta", 0, "text_delta", txt, 0)

InputJsonDelta(i, js) == Ev("content_block_delta", i, "input_json_delta", js, 0)

ContentBlockStop(i) == Ev("content_block_stop", i, "", "", 0)

MessageDelta(sr, n) == Ev("message_delta", -1, sr, "", n)

MessageStop == Ev("message_stop", -1, "", "", 0)

Done == Ev("[DONE]", -1, "", "", 0)

(* ------------------------------- state --------------------------------- *)

VARIABLES
    pc,                   \* position of the handle_streaming coroutine
    consumed,             \* the upstream fragments delivered so far
    unread,               \* fragments the upstream still held at `return`
    out,                  \* the events yielded so far
    tool_index, anthropic_tool_index, last_tool_index, tool_content,
    accumulated_text, full_response_text, text_sent, text_block_closed,
    input_tokens, output_tokens, has_sent_stop_reason, stop_reason,
    debug_logs,           \* global_config.debug_logs
    available,            \* providers whose api_key is set (is_available)
    current_config,       \* ConfigManager.current_config
    routed,               \* the last model token validated and its outcome
    status_read,          \* a get_status() call of the server thread, in progress
    request,              \* the MessagesRequest handed to create_message
    litellm_request,      \* the call create_message made to litellm
    ANTHROPIC_API_KEY,    \* os.environ.get("ANTHROPIC_API_KEY") at import
    raw_request,          \* the inbound HTTP request: headers and body
    forwarded,            \* the POST forward_to_anthropic made and its answer
    invocations,          \* upstream calls made for the request, per kind
    litellm_response,     \* what litellm.completion returned or raised
    anthropic_response,   \* the result of convert_litellm_to_anthropic
    reply,                \* what create_message returned or raised
    conversation_calls,   \* the calls of global_config.add_conversation_message
    config_result,        \* the last alias update asked for and what it returned
    suspended             \* the locals of a second handle_streaming call

streamVars ==
    <<pc, consumed, unread, out, tool_index, anthropic_tool_index, last_tool_index,
      tool_content, accumulated_text, full_response_text, text_sent,
      text_block_closed, input_tokens, output_tokens, has_sent_stop_reason,
      stop_reason>>

configVars == <<available, current_config, config_result>>

requestVars == <<status_read, request, litellm_request>>

replyVars ==
    <<ANTHROPIC_API_KEY, raw_request, forwarded, invocations, litellm_response,
      anthropic_response, reply, suspended>>

exchangeVars == <<replyVars, conversation_calls>>

vars == <<streamVars, debug_logs, configVars, routed, requestVars, exchangeVars>>

\* A dict key that is not present.
Absent == "<absent>"

\* No get_status() call is in progress: no key of current_config read yet.
StatusUnread ==
    [at |-> 0, proxy_enabled |-> FALSE, big_model |-> Unbound,
     small_model |-> Unbound, current_preset |-> Unbound,
     before |-> <<Unbound, Unbound>>]

\* tool_choice = None
NoChoice == [present |-> FALSE, type |-> Absent, name |-> Absent, other |-> FALSE]

\* No request has been parsed.
NoRequest ==
    [model |-> <<>>, max_tokens |-> 0, thinking |-> NoneStr, system |-> NoneStr,
     tools |-> <<>>, tool_choice |-> NoChoice, messages |-> <<>>, stream |-> FALSE]

\* litellm.completion / litellm.acompletion has not been called.
NotCalled ==
    [called |-> FALSE, model |-> <<>>, max_tokens |-> 0, thinking |-> Absent,
     tools |-> <<>>, tool_choice |-> [kind |-> Absent, name |-> Absent],
     messages |-> <<>>, api_key |-> Absent]

\* The header names of an inbound request that are told apart (Starlette
\* gives them in lower case).
HeaderNames == {"host", "x-api-key", "authorization", "anthropic-version", "user-agent"}

NoHeaders == [h \in HeaderNames |-> Absent]

\* No inbound HTTP request.
NoRawRequest == [headers |-> NoHeaders, body |-> Absent]

\* forward_to_anthropic has not posted anything; status_code 0 while the
\* answer of the POST is outstanding.
NotForwarded ==
    [posted |-> FALSE, url |-> Absent, headers |-> NoHeaders, body |-> Absent,
     status_code |-> 0, text |-> Absent]

NoInvocation == [litellm |-> 0, anthropic |-> 0]

\* litellm.completion has not returned.
NoLitellmResponse ==
    [kind |-> "none", has_choice |-> FALSE, content |-> NoneStr, tool_calls |-> <<>>,
     finish_reason |-> NoneStr,
     usage |-> [present |-> FALSE, prompt_tokens |-> 0, completion_tokens |-> 0],
     status_code |-> 0]

\* convert_litellm_to_anthropic has not returned.
NoAnthropicResponse ==
    [returned |-> FALSE, model |-> <<>>, content |-> <<>>, stop_reason |-> NoneStr,
     input_tokens |-> 0, output_tokens |-> 0]

\* The debug log entry of the except branch of create_message
\* (server.py:2108-2125).
ErrorLog == [type |-> "error", stop_reason |-> NoneStr, input_tokens |-> 0,
             output_tokens |-> 0]

\* What create_message handed back: a MessagesResponse or a JSON body
\* ("response"), a StreamingResponse ("stream") or an HTTPException ("error").
Reply(kind, status_code, detail) ==
    [kind |-> kind, status_code |-> status_code, detail |-> detail]

\* create_message is still running (or was never entered).
NoReply == [kind |-> "none", status_code |-> 0, detail |-> Absent]

\* The locals of a handle_streaming call that has not started
\* (server.py:1182-1195).
IdleStream ==
    [pc |-> "created", consumed |-> <<>>, unread |-> <<>>, out |-> <<>>,
     tool_index |-> NoneIdx, anthropic_tool_index |-> NoneIdx,
     last_tool_index |-> 0, tool_content |-> "",
     accumulated_text |-> "", full_response_text |-> "",
     text_sent |-> FALSE, text_block_closed |-> FALSE,
     input_tokens |-> 0, output_tokens |-> 0,
     has_sent_stop_reason |-> FALSE, stop_reason |-> Unbound]

ExchangeIdle ==
    /\ ANTHROPIC_API_KEY = NoneStr
    /\ conversation_calls = <<>>
    /\ suspended = IdleStream
    /\ raw_request = NoRawRequest
    /\ forwarded = NotForwarded
    /\ invocations = NoInvocation
    /\ litellm_response = NoLitellmResponse
    /\ anthropic_response = NoAnthropicResponse
    /\ reply = NoReply

RequestIdle ==
    /\ status_read = StatusUnread
    /\ request = NoRequest
    /\ litellm_request = NotCalled
    /\ ExchangeIdle

\* ConfigManager.max_debug_logs
max_debug_logs == 50

\* s[m..] of Python's s[-n:]
LastN(s, n) == IF Len(s) <= n THEN s ELSE SubSeq(s, Len(s) - n + 1, Len(s))

\* add_debug_log that makes room by dropping the entry before the new one.
add_debug_log_KeepOldest(logs, entry) ==
    IF Len(logs) >= max_debug_logs
    THEN Append(SubSeq(logs, 1, max_debug_logs - 1), entry)
    ELSE Append(logs, entry)

\* ConfigManager.add_debug_log
add_debug_log(logs, entry) ==
    LET appended == Append(logs, entry)
    IN  IF Len(appended) > max_debug_logs THEN LastN(appended, max_debug_logs)
        ELSE appended

ResponseLog(sr, inTok, outTok) ==
    [type |-> "response", stop_reason |-> sr,
     input_tokens |-> inTok, output_tokens |-> outTok]

(* ------------------------- ConfigManager (config.py) ------------------- *)

\* The provider table (providers.json, loaded by ConfigManager.__init__),
\* in dict order, with each provider's model list.
ProviderOrder == <<"openai", "gemini", "anthropic">>

Providers == {ProviderOrder[i] : i \in 1..Len(ProviderOrder)}

provider_models(p) ==
    IF p = "openai" THEN {"gpt-4o", "gpt-4o-mini"}
    ELSE IF p = "gemini" THEN {"gemini-1.5-pro"}
    ELSE {"claude-2.1"}

\* The presets of providers.json: name -> big_model, small_model.
presets ==
    [default |-> [big_model |-> "gpt-4o", small_model |-> "gpt-4o-mini"],
     mixed   |-> [big_model |-> "gemini-1.5-pro", small_model |-> "gpt-4o-mini"],
     broken  |-> [big_model |-> "no-such-model", small_model |-> "gpt-4o-mini"]]

\* Model names callers pass to set_models / load_config.
ModelNames == UNION {provider_models(p) : p \in Providers} \cup {"no-such-model"}

\* ConfigManager.find_model_provider: the first provider, in dict order,
\* that lists the model; NoneStr when none does.
RECURSIVE find_from(_, _)
find_from(model_name, i) ==
    IF i > Len(ProviderOrder) THEN NoneStr
    ELSE IF model_name \in provider_models(ProviderOrder[i]) THEN ProviderOrder[i]
    ELSE find_from(model_name, i + 1)

find_model_provider(model_name) == find_from(model_name, 1)

\* ConfigManager.validate_model under the credentials avail.
validate_model(avail, model_name) ==
    LET provider_name == find_model_provider(model_name)
    IN  IF provider_name = NoneStr THEN FALSE ELSE provider_name \in avail

\* No apply_preset, set_models or load_config call was made yet.
NoConfigCall ==
    [called |-> FALSE, big_model |-> NoneStr, small_model |-> NoneStr,
     preset_name |-> NoneStr, result |-> FALSE]

\* ConfigManager.__init__ followed by _load_default_preset.
load_default_preset(avail) ==
    LET empty == [proxy_enabled |-> TRUE, big_model |-> NoneStr,
                  small_model |-> NoneStr, current_preset |-> NoneStr]
    IN  IF "default" \in DOMAIN presets
           /\ validate_model(avail, presets["default"].big_model)
           /\ validate_model(avail, presets["default"].small_model)
        THEN [empty EXCEPT !.big_model = presets["default"].big_model,
                           !.small_model = presets["default"].small_model,
                           !.current_preset = "default"]
        ELSE empty

ConfigInit(avail) ==
    /\ available = avail
    /\ config_result = NoConfigCall
    /\ current_config = load_default_preset(avail)
    /\ routed = [token |-> <<>>, error |-> NoneStr, model |-> NoneStr]

\* ConfigManager.get_status: the keys the validator can read.
get_status ==
    [proxy_enabled |-> current_config.proxy_enabled,
     big_model |-> current_config.big_model,
     small_model |-> current_config.small_model,
     current_preset |-> current_config.current_preset,
     available_providers |-> available]

(* ------------------- MessagesRequest.validate_model_field --------------- *)

\* A model token is a sequence of name segments; a provider prefix is a
\* segment of its own.
Segments ==
    {"openai/", "gemini/", "anthropic/", "opus", "OPUS", "haiku", "Sonnet",
     "gpt-4o", "gemini-1.5-pro", "claude-2.1"}

Tokens == UNION {[1..n -> Segments] : n \in 1..MaxTokenLen}

\* str.lower on a segment.
lower(seg) ==
    IF seg = "OPUS" THEN "opus" ELSE IF seg = "Sonnet" THEN "sonnet" ELSE seg

\* The str a token stands for.
RECURSIVE Join(_)
Join(v) == IF v = <<>> THEN "" ELSE Head(v) \o Join(Tail(v))

startswith(v, prefix) == v # <<>> /\ Head(v) = prefix

\* `keyword in clean_v.lower()`
contains(clean_v, keyword) == \E i \in 1..Len(clean_v) : lower(clean_v[i]) = keyword

\* The known-model lists of server.py that the tokens can spell.
OPENAI_MODELS == {"gpt-4o"}

GEMINI_MODELS == {"gemini-1.5-pro"}

ANTHROPIC_MODELS == {"claude-2.1"}

\* Remove provider prefixes for easier matching (server.py:481-488).
strip_prefix(v) ==
    IF startswith(v, "anthropic/") \/ startswith(v, "openai/") \/ startswith(v, "gemini/")
    THEN Tail(v) ELSE v

\* MessagesRequest.validate_model_field on token v with the status record
\* of get_status(): the outcome is the exception raised, or the model id
\* returned.
validate_model_field(v, status) ==
    IF "super_model" \notin DOMAIN status
    THEN \* current_config["super_model"] (server.py:475) raises KeyError
         [error |-> "KeyError", model |-> NoneStr]
    ELSE
      LET clean_v == strip_prefix(v)
          name == Join(clean_v)
      IN  [error |-> NoneStr,
           model |->
             IF contains(clean_v, "opus") THEN status.super_model
             ELSE IF contains(clean_v, "haiku") THEN status.small_model
             ELSE IF contains(clean_v, "sonnet") THEN status.big_model
             ELSE IF name \in ANTHROPIC_MODELS /\ ~startswith(v, "anthropic/")
                  THEN "anthropic/" \o name
             ELSE IF name \in GEMINI_MODELS /\ ~startswith(v, "gemini/")
                  THEN "gemini/" \o name
             ELSE IF name \in OPENAI_MODELS /\ ~startswith(v, "openai/")
                  THEN "openai/" \o name
             ELSE Join(v)]

\* A /v1/messages request body is parsed: pydantic runs the validator on
\* its model field; routed keeps the token and the outcome.  One request
\* is followed per behaviour.
\* TokenCountRequest.validate_model_token_count on token v with the status
\* record (server.py:548-613): the branches of validate_model_field but the
\* one for ANTHROPIC_MODELS.
validate_model_token_count(v, status) ==
    IF "super_model" \notin DOMAIN status
    THEN \* current_config["super_model"] (server.py:556) raises KeyError
         [error |-> "KeyError", model |-> NoneStr]
    ELSE
      LET clean_v == strip_prefix(v)
          name == Join(clean_v)
      IN  [error |-> NoneStr,
           model |->
             IF contains(clean_v, "opus") THEN status.super_model
             ELSE IF contains(clean_v, "haiku") THEN status.small_model
             ELSE IF contains(clean_v, "sonnet") THEN status.big_model
             ELSE IF name \in GEMINI_MODELS /\ ~startswith(v, "gemini/")
                  THEN "gemini/" \o name
             ELSE IF name \in OPENAI_MODELS /\ ~startswith(v, "openai/")
                  THEN "openai/" \o name
             ELSE Join(v)]

ValidateRequest(v) ==
    /\ routed.token = <<>>
    /\ routed' = [token |-> v] @@ validate_model_field(v, get_status)
    /\ UNCHANGED <<streamVars, debug_logs, configVars, requestVars, exchangeVars>>

\* What an alias update was asked for and the value it returned.
ConfigCall(big_model, small_model, preset_name, result) ==
    [called |-> TRUE, big_model |-> big_model, small_model |-> small_model,
     preset_name |-> preset_name, result |-> result]

\* apply_preset that stores each model as soon as it is validated.
apply_preset_BigFirst(preset_name) ==
    IF preset_name \notin DOMAIN presets
    THEN /\ config_result' = ConfigCall(NoneStr, NoneStr, preset_name, FALSE)
         /\ UNCHANGED <<current_config, debug_logs>>
    ELSE IF ~validate_model(available, presets[preset_name].big_model)
    THEN /\ config_result' = ConfigCall(presets[preset_name].big_model,
                                        presets[preset_name].small_model,
                                        preset_name, FALSE)
         /\ UNCHANGED <<current_config, debug_logs>>
    ELSE IF ~validate_model(available, presets[preset_name].small_model)
    THEN /\ config_result' = ConfigCall(presets[preset_name].big_model,
                                        presets[preset_name].small_model,
                                        preset_name, FALSE)
         /\ current_config' =
              [current_config EXCEPT !.big_model = presets[preset_name].big_model]
         /\ UNCHANGED debug_logs
    ELSE /\ config_result' = ConfigCall(presets[preset_name].big_model,
                                        presets[preset_name].small_model,
                                        preset_name, TRUE)
         /\ current_config' =
              [current_config EXCEPT !.big_model = presets[preset_name].big_model,
                                     !.small_model = presets[preset_name].small_model,
                                     !.current_preset = preset_name]
         /\ debug_logs' = add_debug_log(debug_logs,
              [type |-> "config", stop_reason |-> NoneStr,
               input_tokens |-> 0, output_tokens |-> 0])

\* ConfigManager.apply_preset
apply_preset(preset_name) ==
    IF preset_name \notin DOMAIN presets
    THEN /\ config_result' = ConfigCall(NoneStr, NoneStr, preset_name, FALSE)
         /\ UNCHANGED <<current_config, debug_logs>>
    ELSE IF \/ ~validate_model(available, presets[preset_name].big_model)
            \/ ~validate_model(available, presets[preset_name].small_model)
    THEN /\ config_result' = ConfigCall(presets[preset_name].big_model,
                                        presets[preset_name].small_model,
                                        preset_name, FALSE)
         /\ UNCHANGED <<current_config, debug_logs>>
    ELSE /\ config_result' = ConfigCall(presets[preset_name].big_model,
                                        presets[preset_name].small_model,
                                        preset_name, TRUE)
         /\ current_config' =
              [current_config EXCEPT !.big_model = presets[preset_name].big_model,
                                     !.small_model = presets[preset_name].small_model,
                                     !.current_preset = preset_name]
         /\ debug_logs' = add_debug_log(debug_logs,
              [type |-> "config", stop_reason |-> NoneStr,
               input_tokens |-> 0, output_tokens |-> 0])

ApplyPreset(preset_name) ==
    /\ apply_preset(preset_name)
    /\ UNCHANGED <<streamVars, available, routed, requestVars, exchangeVars>>

\* set_models that validates the big model only.
set_models_SmallUnchecked(big_model, small_model) ==
    IF ~validate_model(available, big_model)
    THEN /\ config_result' = ConfigCall(big_model, small_model, NoneStr, FALSE)
         /\ UNCHANGED <<current_config, debug_logs>>
    ELSE /\ config_result' = ConfigCall(big_model, small_model, NoneStr, TRUE)
         /\ current_config' =
              [current_config EXCEPT !.big_model = big_model,
                                     !.small_model = small_model,
                                     !.current_preset = NoneStr]
         /\ debug_logs' = add_debug_log(debug_logs,
              [type |-> "config", stop_reason |-> NoneStr,
               input_tokens |-> 0, output_tokens |-> 0])

\* ConfigManager.set_models
set_models(big_model, small_model) ==
    IF ~validate_model(available, big_model) \/ ~validate_model(available, small_model)
    THEN /\ config_result' = ConfigCall(big_model, small_model, NoneStr, FALSE)
         /\ UNCHANGED <<current_config, debug_logs>>
    ELSE /\ config_result' = ConfigCall(big_model, small_model, NoneStr, TRUE)
         /\ current_config' =
              [current_config EXCEPT !.big_model = big_model,
                                     !.small_model = small_model,
                                     !.current_preset = NoneStr]
         /\ debug_logs' = add_debug_log(debug_logs,
              [type |-> "config", stop_reason |-> NoneStr,
               input_tokens |-> 0, output_tokens |-> 0])

SetModels(big_model, small_model) ==
    /\ set_models(big_model, small_model)
    /\ UNCHANGED <<streamVars, available, routed, requestVars, exchangeVars>>

\* A key that a JSON document handed to load_config does not have.
MissingKey == "<missing>"

\* The arguments of load_config: text that is not JSON (valid = FALSE), or
\* a JSON object whose big_model and small_model keys are present or not.
ConfigDocs ==
    {[valid |-> FALSE, big_model |-> MissingKey, small_model |-> MissingKey]}
    \cup {[valid |-> TRUE, big_model |-> b, small_model |-> m] :
             b \in ModelNames \cup {MissingKey}, m \in ModelNames \cup {MissingKey}}

\* ConfigManager.load_config
load_config(config) ==
    IF ~config.valid
    THEN \* json.JSONDecodeError is caught: return False
         /\ config_result' = ConfigCall(MissingKey, MissingKey, NoneStr, FALSE)
         /\ UNCHANGED <<current_config, debug_logs>>
    ELSE IF config.big_model # MissingKey /\ config.small_model # MissingKey
         THEN set_models(config.big_model, config.small_model)
         ELSE /\ config_result' = ConfigCall(config.big_model, config.small_model,
                                             NoneStr, FALSE)
              /\ UNCHANGED <<current_config, debug_logs>>

LoadConfig(config) ==
    /\ load_config(config)
    /\ UNCHANGED <<streamVars, available, routed, requestVars, exchangeVars>>

\* ConfigManager.toggle_proxy
ToggleProxy ==
    /\ current_config' = [current_config EXCEPT !.proxy_enabled = ~@]
    /\ UNCHANGED <<streamVars, debug_logs, available, config_result, routed,
                   requestVars, exchangeVars>>

(* -------------------------- handle_streaming --------------------------- *)

\* StreamStopReason that knows tool_calls only.
StreamStopReason_ToolCallsOnly(finish_reason) ==
    IF finish_reason = "tool_calls" THEN "tool_use" ELSE "end_turn"

\* Map OpenAI finish_reason to Anthropic stop_reason (server.py:1355-1362).
StreamStopReason(finish_reason) ==
    IF finish_reason = "length" THEN "max_tokens"
    ELSE IF finish_reason = "tool_calls" THEN "tool_use"
    ELSE "end_turn"

\* content_block_stop for i in range(1, last + 1), guarded by
\* `tool_index is not None`.
CloseToolBlocks(ti, last) ==
    IF ti # NoneIdx THEN [i \in 1..last |-> ContentBlockStop(i)] ELSE <<>>

\* The partial_json sent for an arguments value (server.py:1318-1336).
ArgsJson(tc) == IF tc.isDict THEN json_dumps(tc.arguments) ELSE tc.arguments

\* The `for tool_call in delta_tool_calls` loop; s carries the locals the
\* loop reads and writes, and the events it yields.
RECURSIVE ToolCallLoop(_, _)
ToolCallLoop(tcs, s) ==
    IF tcs = <<>> THEN s
    ELSE
      LET tc == Head(tcs)
          isNew == s.tool_index = NoneIdx \/ tc.index # s.tool_index
          s1 == IF isNew
                THEN [s EXCEPT !.tool_index = tc.index,
                               !.last_tool_index = s.last_tool_index + 1,
                               !.anthropic_tool_index = s.last_tool_index + 1,
                               !.tool_content = "",
                               !.out = Append(s.out,
                                   ToolBlockStart(s.last_tool_index + 1, tc.id, tc.name))]
                ELSE s
          s2 == IF tc.arguments # ""
                THEN [s1 EXCEPT !.tool_content = s1.tool_content \o ArgsJson(tc),
                                !.out = Append(s1.out,
                                    InputJsonDelta(s1.anthropic_tool_index, ArgsJson(tc)))]
                ELSE s1
      IN  ToolCallLoop(Tail(tcs), s2)

\* FinishEvents closing text block 0 without looking at text_block_closed.
FinishEvents_CloseTextAlways(ti, last, closed, acc, sent, finish_reason, outTok) ==
    CloseToolBlocks(ti, last)
    \o (IF acc # "" /\ ~sent THEN <<TextDelta(acc)>> ELSE <<>>)
    \o <<ContentBlockStop(0)>>
    \o <<MessageDelta(IF finish_reason = "length" THEN "max_tokens"
                      ELSE IF finish_reason = "tool_calls" THEN "tool_use"
                      ELSE "end_turn", outTok), MessageStop, Done>>

\* The closing sequence on the first finish_reason (server.py:1339-1373).
FinishEvents(ti, last, closed, acc, sent, finish_reason, outTok) ==
    CloseToolBlocks(ti, last)
    \o (IF ~closed
        THEN (IF acc # "" /\ ~sent THEN <<TextDelta(acc)>> ELSE <<>>)
             \o <<ContentBlockStop(0)>>
        ELSE <<>>)
    \o <<MessageDelta(StreamStopReason(finish_reason), outTok), MessageStop, Done>>

\* The closing sequence after the loop when no finish_reason was seen
\* (server.py:1413-1432).
ExhaustedEvents(ti, last, outTok) ==
    CloseToolBlocks(ti, last)
    \o <<ContentBlockStop(0)>>
    \o <<MessageDelta("end_turn", outTok), MessageStop, Done>>

\* The except block of handle_streaming (server.py:1484-1491).
ErrorEvents == <<MessageDelta("error", 0), MessageStop, Done>>

StreamInit ==
    /\ pc = "created"
    /\ consumed = <<>>
    /\ unread = <<>>
    /\ out = <<>>
    /\ tool_index = NoneIdx
    /\ anthropic_tool_index = NoneIdx
    /\ last_tool_index = 0
    /\ tool_content = ""
    /\ accumulated_text = ""
    /\ full_response_text = ""
    /\ text_sent = FALSE
    /\ text_block_closed = FALSE
    /\ input_tokens = 0
    /\ output_tokens = 0
    /\ has_sent_stop_reason = FALSE
    /\ stop_reason = Unbound
    /\ debug_logs = <<>>

Init ==
    /\ StreamInit
    /\ ConfigInit(Providers)
    /\ RequestIdle

\* A str is built from pieces; the pieces that are all whitespace.
Whitespace == {"", " ", "\n", "\n\n"}

\* str.strip of the str the pieces spell, for pieces that are either all
\* whitespace or free of leading and trailing whitespace.
strip(pieces) ==
    LET ink == {i \in 1..Len(pieces) : pieces[i] \notin Whitespace}
    IN  IF ink = {} THEN ""
        ELSE LET first == CHOOSE i \in ink : \A j \in ink : i <= j
                 last == CHOOSE i \in ink : \A j \in ink : j <= i
             IN  Join(SubSeq(pieces, first, last))

RECURSIVE text_block_lines(_)
\* content_text of a list content: the text of each text block and a
\* newline (server.py:1385-1389).
text_block_lines(blocks) ==
    IF blocks = <<>> THEN <<>>
    ELSE (IF Head(blocks).type = "text" THEN <<Head(blocks).text, "\n">> ELSE <<>>)
         \o text_block_lines(Tail(blocks))

\* content_text.strip() of a message of the request (server.py:1379-1391).
message_text(msg) ==
    IF msg.is_str THEN strip(<<msg.text>>) ELSE strip(text_block_lines(msg.blocks))

\* One call add_conversation_message(role, content, model_used).
ConversationCall(role, content) == [role |-> role, content |-> content]

RECURSIVE message_calls(_)
\* The calls for the messages of the request: one for each message whose
\* stripped text is not empty (server.py:1377-1396).
message_calls(messages) ==
    IF messages = <<>> THEN <<>>
    ELSE (IF Head(messages).role \in {"user", "assistant"}
             /\ message_text(Head(messages)) # ""
          THEN <<ConversationCall(Head(messages).role, message_text(Head(messages)))>>
          ELSE <<>>)
         \o message_calls(Tail(messages))

\* One pass of the block that records the conversation: the messages of
\* the request, then the reply when its stripped text is not empty
\* (server.py:1375-1405, 1435-1462, 1498-1525, 1992-2033).
record_conversation(original_request, reply_text) ==
    message_calls(original_request.messages)
    \o (IF reply_text # "" THEN <<ConversationCall("assistant", reply_text)>> ELSE <<>>)

\* handle_streaming up to its first `async for` suspension
\* (server.py:1153-1197).
StreamStart ==
    /\ pc = "created"
    /\ pc' = "loop"
    /\ out' = <<MessageStart, TextBlockStart, Ping>>
    /\ UNCHANGED <<consumed, unread, tool_index, anthropic_tool_index, last_tool_index,
                   tool_content, accumulated_text, full_response_text, text_sent,
                   text_block_closed, input_tokens, output_tokens,
                   has_sent_stop_reason, stop_reason, debug_logs>>
    /\ UNCHANGED <<configVars, routed, requestVars, exchangeVars>>

\* The text of the delta forwarded for a chunk: the chunk's own
\* delta_content, not the accumulated text (server.py:1239).
TextDeltaPayload_Batched(acc, delta_content) == acc

TextDeltaPayload(acc, delta_content) == delta_content

\* `return` inside the loop ends the coroutine (server.py:1407).
PcAfterReturn_NoReturn == "loop"

PcAfterReturn == "done"

\* The finally block's completion record (server.py:1492-1550).
FinallyLog(logs, sent_stop, sr, inTok, outTok) ==
    add_debug_log(logs,
        ResponseLog(IF ~sent_stop THEN "end_turn" ELSE sr, inTok, outTok))

\* The locals of a handle_streaming call (server.py:1182-1195), with its
\* position, the fragments it read and the events it yielded.
StreamState ==
    [pc |-> pc, consumed |-> consumed, unread |-> unread, out |-> out,
     tool_index |-> tool_index, anthropic_tool_index |-> anthropic_tool_index,
     last_tool_index |-> last_tool_index, tool_content |-> tool_content,
     accumulated_text |-> accumulated_text, full_response_text |-> full_response_text,
     text_sent |-> text_sent, text_block_closed |-> text_block_closed,
     input_tokens |-> input_tokens, output_tokens |-> output_tokens,
     has_sent_stop_reason |-> has_sent_stop_reason, stop_reason |-> stop_reason]

\* A text delta is forwarded for every chunk that has text.
emits_text_Always(ti, closed) == TRUE

\* A text delta is forwarded only while no tool call has started and
\* block 0 is open (server.py:1237).
emits_text(ti, closed) == ti = NoneIdx /\ ~closed

\* The body of `async for chunk in response_generator` (server.py:1197-1411)
\* as a function of the locals and the chunk.
process_chunk(st, chunk) ==
    LET inTok == IF chunk.has_usage THEN chunk.prompt_tokens ELSE st.input_tokens
        outTok == IF chunk.has_usage THEN chunk.completion_tokens ELSE st.output_tokens
        read == [st EXCEPT !.consumed = Append(@, chunk),
                           !.input_tokens = inTok, !.output_tokens = outTok]
    IN
    IF ~chunk.has_choices \/ chunk.content = BadContent
    THEN \* no choices, or TypeError caught by the per-chunk except
         read
    ELSE
      LET hasText == chunk.content # NoneStr /\ chunk.content # ""
          acc == IF hasText THEN st.accumulated_text \o chunk.content
                 ELSE st.accumulated_text
          emitText == hasText /\ emits_text(st.tool_index, st.text_block_closed)
          sent1 == st.text_sent \/ emitText
          out1 == IF emitText
                  THEN Append(st.out, TextDelta(TextDeltaPayload(acc, chunk.content)))
                  ELSE st.out
          \* first tool call of the stream (server.py:1251-1270)
          hasTools == chunk.tool_calls # <<>>
          first == hasTools /\ st.tool_index = NoneIdx
          flush == first /\ ~(sent1 /\ ~st.text_block_closed)
                         /\ acc # "" /\ ~sent1 /\ ~st.text_block_closed
          closeNow == first /\ ~st.text_block_closed
          out2 == out1
                  \o (IF flush THEN <<TextDelta(acc)>> ELSE <<>>)
                  \o (IF closeNow THEN <<ContentBlockStop(0)>> ELSE <<>>)
          sent2 == sent1 \/ flush
          closed2 == st.text_block_closed \/ closeNow
          s == ToolCallLoop(chunk.tool_calls,
                  [tool_index |-> st.tool_index,
                   last_tool_index |-> st.last_tool_index,
                   anthropic_tool_index |-> st.anthropic_tool_index,
                   tool_content |-> st.tool_content,
                   out |-> out2])
          fin == chunk.finish_reason # NoneStr /\ ~st.has_sent_stop_reason
          looped == [read EXCEPT
                       !.accumulated_text = acc,
                       !.full_response_text = (IF hasText THEN @ \o chunk.content ELSE @),
                       !.text_sent = sent2,
                       !.text_block_closed = closed2,
                       !.tool_index = s.tool_index,
                       !.last_tool_index = s.last_tool_index,
                       !.anthropic_tool_index = s.anthropic_tool_index,
                       !.tool_content = s.tool_content,
                       !.out = s.out]
      IN
      IF fin
      THEN [looped EXCEPT
              !.has_sent_stop_reason = TRUE,
              !.stop_reason = StreamStopReason(chunk.finish_reason),
              !.out = s.out \o FinishEvents(s.tool_index, s.last_tool_index,
                                  closed2, acc, sent2, chunk.finish_reason, outTok),
              !.pc = PcAfterReturn]
      ELSE looped

\* One iteration of `async for chunk in response_generator`
\* (server.py:1197-1411), with the finally block when it returns.
ProcessChunk(chunk) ==
    /\ pc = "loop"
    /\ Len(consumed) < MaxChunks
    /\ UNCHANGED <<unread, configVars, routed, requestVars, replyVars>>
    /\ LET next == process_chunk(StreamState, chunk)
       IN
       /\ pc' = next.pc
       /\ consumed' = next.consumed
       /\ out' = next.out
       /\ tool_index' = next.tool_index
       /\ anthropic_tool_index' = next.anthropic_tool_index
       /\ last_tool_index' = next.last_tool_index
       /\ tool_content' = next.tool_content
       /\ accumulated_text' = next.accumulated_text
       /\ full_response_text' = next.full_response_text
       /\ text_sent' = next.text_sent
       /\ text_block_closed' = next.text_block_closed
       /\ input_tokens' = next.input_tokens
       /\ output_tokens' = next.output_tokens
       /\ has_sent_stop_reason' = next.has_sent_stop_reason
       /\ stop_reason' = next.stop_reason
       /\ IF next.has_sent_stop_reason /\ ~has_sent_stop_reason
          THEN \* the return on a finish_reason: the conversation is recorded
               \* before the return, and again by the finally block
               /\ debug_logs' = FinallyLog(debug_logs, TRUE, next.stop_reason,
                                    next.input_tokens, next.output_tokens)
               /\ conversation_calls' =
                     conversation_calls
                     \o record_conversation(request, strip(<<next.full_response_text>>))
                     \o record_conversation(request, strip(<<next.full_response_text>>))
          ELSE UNCHANGED <<debug_logs, conversation_calls>>

\* The upstream sequence ends (StopAsyncIteration): the code after the loop
\* and the finally block (server.py:1413-1464, 1492-1550).
UpstreamExhausted ==
    /\ pc = "loop"
    /\ pc' = "done"
    /\ out' = (IF ~has_sent_stop_reason
               THEN out \o ExhaustedEvents(tool_index, last_tool_index, output_tokens)
               ELSE out)
    /\ stop_reason' = (IF ~has_sent_stop_reason THEN "end_turn" ELSE stop_reason)
    /\ debug_logs' = FinallyLog(debug_logs, has_sent_stop_reason, stop_reason,
                                input_tokens, output_tokens)
    \* recorded after the loop when no finish_reason came, and by the finally block
    /\ conversation_calls' =
          conversation_calls
          \o (IF ~has_sent_stop_reason
              THEN record_conversation(request, strip(<<full_response_text>>))
              ELSE <<>>)
          \o record_conversation(request, strip(<<full_response_text>>))
    /\ UNCHANGED <<consumed, unread, tool_index, anthropic_tool_index, last_tool_index,
                   tool_content, accumulated_text, full_response_text, text_sent,
                   text_block_closed, input_tokens, output_tokens,
                   has_sent_stop_reason, configVars, routed, requestVars, replyVars>>

\* Iterating the upstream sequence raises: the except block and then the
\* finally block (server.py:1466-1550).
UpstreamRaises ==
    /\ pc = "loop"
    /\ pc' = "failed"
    /\ out' = out \o ErrorEvents
    /\ stop_reason' = (IF ~has_sent_stop_reason THEN "end_turn" ELSE stop_reason)
    /\ debug_logs' = FinallyLog(
                        add_debug_log(debug_logs, ResponseLog("error", 0, 0)),
                        has_sent_stop_reason, stop_reason,
                        input_tokens, output_tokens)
    \* recorded by the finally block
    /\ conversation_calls' =
          conversation_calls \o record_conversation(request, strip(<<full_response_text>>))
    /\ UNCHANGED <<consumed, unread, tool_index, anthropic_tool_index, last_tool_index,
                   tool_content, accumulated_text, full_response_text, text_sent,
                   text_block_closed, input_tokens, output_tokens,
                   has_sent_stop_reason, configVars, routed, requestVars, replyVars>>

\* The coroutine returned on a finish_reason (server.py:1407) while the
\* upstream still had a fragment: nothing reads it.
UpstreamLeftover(chunk) ==
    /\ pc = "done"
    /\ has_sent_stop_reason
    /\ Len(consumed) + Len(unread) < MaxChunks
    /\ unread' = Append(unread, chunk)
    /\ UNCHANGED <<pc, consumed, out, tool_index, anthropic_tool_index,
                   last_tool_index, tool_content, accumulated_text,
                   full_response_text, text_sent, text_block_closed,
                   input_tokens, output_tokens, has_sent_stop_reason,
                   stop_reason, debug_logs, configVars, routed, requestVars, exchangeVars>>

Next ==
    \/ StreamStart
    \/ \E chunk \in Chunks : ProcessChunk(chunk)
    \/ UpstreamExhausted
    \/ UpstreamRaises
    \/ \E chunk \in Chunks : UpstreamLeftover(chunk)

Spec == Init /\ [][Next]_vars

(* ------------------------------ helpers -------------------------------- *)

Count(seq, P(_)) == Cardinality({i \in 1..Len(seq) : P(seq[i])})

IsPrefix(a, b) == Len(a) <= Len(b) /\ SubSeq(b, 1, Len(a)) = a

NoPing(seq) == SelectSeq(seq, LAMBDA e : e.type # "ping")

IsTextDelta(e) == e.type = "content_block_delta" /\ e.kind = "text_delta"

IsToolEvent(e) ==
    \/ e.type = "content_block_start" /\ e.kind = "tool_use"
    \/ e.type = "content_block_delta" /\ e.kind = "input_json_delta"

IsStop(e) == e.type = "content_block_stop"

Terminated == pc \in {"done", "failed"}

\* A chunk whose delta carries a non-empty text.
HasTextDelta(c) == c.has_choices /\ c.content \notin {NoneStr, "", BadContent}

(* --------------------------------- C1 ---------------------------------- *)

C1_Text(c) ==
    /\ HasTextDelta(c) /\ c.tool_calls = <<>>
    /\ c.finish_reason = NoneStr /\ ~c.has_usage

C1_Tool(c) ==
    /\ c.has_choices /\ c.content = NoneStr /\ Len(c.tool_calls) = 1
    /\ c.tool_calls[1].index = 0 /\ c.finish_reason = NoneStr

C1_Finish(c) ==
    /\ c.has_choices /\ c.content = NoneStr /\ c.tool_calls = <<>>
    /\ c.finish_reason = "tool_calls" /\ ~c.has_usage

\* cs is k text deltas, then one or more fragments of tool call 0, then the
\* finish signal tool_calls.
C1_Shape(cs, k) ==
    /\ k >= 1 /\ Len(cs) >= k + 2
    /\ \A i \in 1..k : C1_Text(cs[i])
    /\ \A i \in (k+1)..(Len(cs)-1) : C1_Tool(cs[i])
    /\ C1_Finish(cs[Len(cs)])

RECURSIVE C1_ArgDeltas(_)
C1_ArgDeltas(cs) ==
    IF cs = <<>> THEN <<>>
    ELSE (IF Head(cs).tool_calls[1].arguments # ""
          THEN <<InputJsonDelta(1,
                    IF Head(cs).tool_calls[1].isDict
                    THEN json_dumps(Head(cs).tool_calls[1].arguments)
                    ELSE Head(cs).tool_calls[1].arguments)>>
          ELSE <<>>)
         \o C1_ArgDeltas(Tail(cs))

C1_Expected(cs, k) ==
    <<MessageStart, TextBlockStart>>
    \o [i \in 1..k |-> TextDelta(cs[i].content)]
    \o <<ContentBlockStop(0),
         ToolBlockStart(1, cs[k+1].tool_calls[1].id, cs[k+1].tool_calls[1].name)>>
    \o C1_ArgDeltas(SubSeq(cs, k+1, Len(cs)-1))
    \o <<ContentBlockStop(1), MessageDelta("tool_use", 0), MessageStop, Done>>

C2_StopAtMostOnce ==
    \A j \in 1..Len(out) :
        IsStop(out[j]) => Count(out, LAMBDA e : e = out[j]) = 1

(* --------------------------------- C3 ---------------------------------- *)

\* C3: when iterating the upstream raises, every opened content block is
\* closed before message_stop and the stream ends with
\* message_delta(error), message_stop, [DONE].
C3_ErrorStreamWellFormed ==
    pc = "failed" =>
        /\ Len(out) >= 3
        /\ SubSeq(out, Len(out) - 2, Len(out)) = ErrorEvents
        /\ \A j \in 1..Len(out) :
              out[j].type = "content_block_start" =>
                  \E k \in (j+1)..(Len(out) - 2) : out[k] = ContentBlockStop(out[j].index)

(* --------------------------------- C4 ---------------------------------- *)

\* C4: every stream begins with exactly one message_start (zero usage),
\* content_block_start(0, text) and a ping before any fragment is consumed,
\* and ends with exactly one message_delta, one message_stop and one [DONE]
\* as its last events; fragments (finish signals included) that arrive
\* after the first finish signal add no event.
C4_Envelope ==
    /\ pc = "created" => out = <<>> /\ consumed = <<>>
    /\ pc # "created" =>
          /\ IsPrefix(<<MessageStart, TextBlockStart, Ping>>, out)
          /\ Count(out, LAMBDA e : e.type = "message_start") = 1
    /\ (pc = "loop" /\ consumed = <<>>) => out = <<MessageStart, TextBlockStart, Ping>>
    /\ ~Terminated =>
          Count(out, LAMBDA e : e.type \in {"message_delta", "message_stop", "[DONE]"}) = 0
    /\ Terminated =>
          /\ Len(out) >= 6
          /\ out[Len(out) - 2].type = "message_delta"
          /\ out[Len(out) - 1] = MessageStop
          /\ out[Len(out)] = Done
          /\ Count(out, LAMBDA e : e.type \in {"message_delta", "message_stop", "[DONE]"}) = 3

C4_Witness ==
    /\ pc = "done"
    /\ unread # <<>>
    /\ unread[1].finish_reason # NoneStr
    /\ unread[1].content \in Texts
    /\ out[Len(out)] = Done

(* --------------------------------- C5 ---------------------------------- *)

\* The tool calls of the consumed chunks, in arrival order.
RECURSIVE C5_ToolCalls(_)
C5_ToolCalls(cs) ==
    IF cs = <<>> THEN <<>>
    ELSE (IF Head(cs).has_choices /\ Head(cs).content # BadContent
          THEN Head(cs).tool_calls ELSE <<>>)
         \o C5_ToolCalls(Tail(cs))

C5_Position(seen, b) == CHOOSE i \in 1..Len(seen) : seen[i] = b

\* The tool events the claim describes: seen lists the backend indices in
\* order of first appearance; a backend index keeps the block it opened.
RECURSIVE C5_Reference(_, _)
C5_Reference(tcs, seen) ==
    IF tcs = <<>> THEN <<>>
    ELSE
      LET tc == Head(tcs)
          isNew == \A i \in 1..Len(seen) : seen[i] # tc.index
          seen1 == IF isNew THEN Append(seen, tc.index) ELSE seen
          a == C5_Position(seen1, tc.index)
      IN  (IF isNew THEN <<ToolBlockStart(a, tc.id, tc.name)>> ELSE <<>>)
          \o (IF tc.arguments # ""
              THEN <<InputJsonDelta(a, IF tc.isDict THEN json_dumps(tc.arguments)
                                       ELSE tc.arguments)>>
              ELSE <<>>)
          \o C5_Reference(Tail(tcs), seen1)

\* C5: each distinct backend tool-call index opens exactly one tool_use
\* block, blocks are numbered 1, 2, ... in order of first appearance, and
\* every argument fragment goes to the block of its own backend index, also
\* when the backend indices arrive interleaved.
C5_OneBlockPerBackendIndex ==
    SelectSeq(out, IsToolEvent) = C5_Reference(C5_ToolCalls(consumed), <<>>)

(* --------------------------------- C6 ---------------------------------- *)

C6_ExpectedClosing ==
    [i \in 1..last_tool_index |-> ContentBlockStop(i)]
    \o (IF ~text_block_closed
        THEN (IF accumulated_text # "" /\ ~text_sent
              THEN <<TextDelta(accumulated_text)>> ELSE <<>>)
             \o <<ContentBlockStop(0)>>
        ELSE <<>>)
    \o <<MessageDelta(stop_reason, output_tokens), MessageStop, Done>>

\* C6: on the first finish signal and on upstream exhaustion alike the
\* stream ends with: content_block_stop of every tool block in ascending
\* order, then (only if text block 0 was never closed) the flush of unsent
\* text and content_block_stop(0), then message_delta, message_stop, [DONE];
\* nothing before that closing sequence closes a tool block.
C6_SameClosingSequence ==
    pc = "done" =>
        LET exp == C6_ExpectedClosing
            n == Len(out) - Len(exp)
        IN  /\ n >= 0
            /\ SubSeq(out, n + 1, Len(out)) = exp
            /\ Count(SubSeq(out, 1, n), IsStop) = (IF text_block_closed THEN 1 ELSE 0)

(* --------------------------------- C7 ---------------------------------- *)

\* C7: while no tool-call fragment has been seen, consuming a fragment with
\* a non-empty text delta appends exactly one content_block_delta on index 0
\* carrying exactly that text, as the first event of that step; no step
\* rewrites or reorders events already emitted.
C7_TextForwardedVerbatim ==
    [][ /\ IsPrefix(out, out')
        /\ ( /\ Len(consumed') = Len(consumed) + 1
             /\ tool_index = NoneIdx
             /\ HasTextDelta(consumed'[Len(consumed')]) )
           => /\ Len(out') > Len(out)
              /\ out'[Len(out) + 1] = TextDelta(consumed'[Len(consumed')].content)
              /\ Count(out', IsTextDelta) = Count(out, IsTextDelta) + 1 ]_vars

C7_Witness ==
    /\ tool_index = NoneIdx
    /\ Len(consumed) = 2
    /\ consumed[1].content = "He"
    /\ consumed[2].content = "llo"
    /\ SelectSeq(out, IsTextDelta) = <<TextDelta("He"), TextDelta("llo")>>

(* --------------------------------- C8 ---------------------------------- *)

\* C8: exactly one completion record (a `response` debug-log entry) is
\* emitted per streamed call, however the stream ends.
C8_OneCompletionRecord ==
    Terminated => Count(debug_logs, LAMBDA l : l.type = "response") = 1

(* --------------------------------- C9 ---------------------------------- *)

\* C9: whenever a fragment of the stream reports usage with
\* completion_tokens = n, the message_delta that ends the stream carries
\* usage.output_tokens = n.
C9_OutputTokensReported ==
    Terminated =>
        \A i \in 1..Len(consumed \o unread) :
            (consumed \o unread)[i].has_usage =>
                \A j \in 1..Len(out) :
                    out[j].type = "message_delta" =>
                        out[j].tokens = (consumed \o unread)[i].completion_tokens


(* ------------------------------ the router ----------------------------- *)

\* Number of config debug-log entries kept apart in the router exploration.
MaxConfigLogs == 2

RouterInit ==
    /\ StreamInit
    /\ \E avail \in SUBSET Providers : ConfigInit(avail)
    /\ RequestIdle

RouterNext ==
    \/ \E v \in Tokens : ValidateRequest(v)
    \/ \E n \in DOMAIN presets \cup {"absent"} :
          Len(debug_logs) < MaxConfigLogs /\ ApplyPreset(n)
    \/ \E b, m \in ModelNames : Len(debug_logs) < MaxConfigLogs /\ SetModels(b, m)
    \/ ToggleProxy

SpecRouter == RouterInit /\ [][RouterNext]_vars

(* --------------------------------- C10 --------------------------------- *)

\* The alias a keyword stands for in the current configuration; the super
\* alias is the super_model entry of the status record.
C10_Alias(keyword) ==
    IF keyword = "opus"
    THEN (IF "super_model" \in DOMAIN get_status THEN get_status["super_model"]
          ELSE NoneStr)
    ELSE IF keyword = "haiku" THEN get_status.small_model
    ELSE get_status.big_model

C10_Keyword(v) ==
    IF contains(strip_prefix(v), "opus") THEN "opus"
    ELSE IF contains(strip_prefix(v), "haiku") THEN "haiku"
    ELSE IF contains(strip_prefix(v), "sonnet") THEN "sonnet"
    ELSE NoneStr

\* C10: validating a token whose name (provider prefix stripped, any case)
\* contains opus resolves it to the super alias, else one containing haiku
\* to the small alias, else one containing sonnet to the big alias; a token
\* with several keywords is resolved by that precedence, never rejected.
C10_KeywordPrecedence ==
    [][ (routed' # routed /\ C10_Keyword(routed'.token) # NoneStr) =>
            /\ routed'.error = NoneStr
            /\ routed'.model = C10_Alias(C10_Keyword(routed'.token)) ]_vars

(* --------------------------------- C11 --------------------------------- *)

\* The alias of the keyword is set and names a model whose provider has
\* credentials.
C11_AliasUsable(keyword) ==
    /\ C10_Alias(keyword) # NoneStr
    /\ validate_model(available, C10_Alias(keyword))

\* C11: validating a token that matches an alias keyword while the alias is
\* unset, or names a model whose provider has no credentials, fails with
\* UnresolvedModel, and no upstream call is made for it.
C11_UnresolvedAlias ==
    [][ (/\ routed' # routed
         /\ C10_Keyword(routed'.token) # NoneStr
         /\ ~C11_AliasUsable(C10_Keyword(routed'.token))) =>
            /\ routed'.error = "UnresolvedModel"
            /\ ~litellm_request'.called ]_vars

(* --------------------------------- C12 --------------------------------- *)

C13_Served(model_name) ==
    \E p \in Providers : model_name \in provider_models(p) /\ p \in available

\* C13: in every state reached by apply_preset, set_models and load_config
\* calls, successful or failed, each alias is unset or names a model that a
\* provider with credentials lists.
C13_AliasesValid ==
    /\ current_config.big_model = NoneStr \/ C13_Served(current_config.big_model)
    /\ current_config.small_model = NoneStr \/ C13_Served(current_config.small_model)

\* Aliases installed by a successful call, with a provider left without
\* credentials.
C13_Witness ==
    /\ current_config.big_model = "claude-2.1"
    /\ current_config.small_model = "gemini-1.5-pro"
    /\ "openai" \notin available
    /\ Len(debug_logs) = MaxConfigLogs

(* ----------------- get_status beside the console thread ---------------- *)

\* interactive.py runs the server in a thread of its own (start_server) and
\* calls apply_preset / set_models from the console thread, so a
\* get_status() of the server thread reads the keys of current_config one
\* subscript at a time while the console thread may replace the aliases
\* (dict.update, one step) between two of them.

\* The alias table of a configuration.
Aliases(config) == <<config.big_model, config.small_model>>

\* get_status is called and reads current_config["proxy_enabled"]; before
\* records the alias table at the call.
GetStatusCall ==
    /\ status_read.at = 0
    /\ status_read' = [StatusUnread EXCEPT !.at = 1,
                          !.proxy_enabled = current_config.proxy_enabled,
                          !.before = Aliases(current_config)]
    /\ UNCHANGED <<streamVars, debug_logs, configVars, routed, request, litellm_request,
                   exchangeVars>>

\* The next subscript of the dict display: big_model, small_model,
\* current_preset, in that order.
GetStatusRead ==
    /\ status_read.at \in 1..3
    /\ status_read' =
          [status_read EXCEPT
             !.at = @ + 1,
             !.big_model = IF status_read.at = 1 THEN current_config.big_model ELSE @,
             !.small_model = IF status_read.at = 2 THEN current_config.small_model ELSE @,
             !.current_preset = IF status_read.at = 3 THEN current_config.current_preset ELSE @]
    /\ UNCHANGED <<streamVars, debug_logs, configVars, routed, request, litellm_request,
                   exchangeVars>>

\* get_status returns the dict it built.
GetStatusReturn ==
    /\ status_read.at = 4
    /\ status_read' = StatusUnread
    /\ UNCHANGED <<streamVars, debug_logs, configVars, routed, request, litellm_request,
                   exchangeVars>>

\* The console thread changes the configuration; one alias update at most
\* lands while a get_status call is in progress.
ConsoleMayUpdate ==
    /\ Len(debug_logs) < MaxConfigLogs
    /\ status_read.at = 0 \/ Aliases(current_config) = status_read.before

LookupNext ==
    \/ GetStatusCall
    \/ GetStatusRead
    \/ GetStatusReturn
    \/ \E n \in DOMAIN presets \cup {"absent"} : ConsoleMayUpdate /\ ApplyPreset(n)
    \/ \E b, m \in ModelNames : ConsoleMayUpdate /\ SetModels(b, m)
    \/ \E config \in ConfigDocs : ConsoleMayUpdate /\ LoadConfig(config)
    \/ ToggleProxy

\* The configuration calls of the console thread (apply_preset, set_models,
\* load_config, toggle_proxy) beside the get_status calls of the server
\* thread, from every set of credentials.
SpecLookup == RouterInit /\ [][LookupNext]_vars

(* --------------------------------- C14 --------------------------------- *)

\* C14: a lookup of the aliases that runs beside an alias update observes
\* the alias table as it was before the update or as it is after it, never
\* the big alias of one table with the small alias of the other.
C14_LookupAtomic ==
    status_read.at >= 3 =>
        <<status_read.big_model, status_read.small_model>>
            \in {status_read.before, Aliases(current_config)}

(* ------------------------ the request translator ----------------------- *)

\* Nesting depth of the tool input schemas explored.
MaxDepth == 2

\* Number of tools of a request.
MaxTools == 2

\* A JSON value: a str, another scalar, a dict (items: its key/value pairs
\* in order) or a list (items: its members, under the key "").
Pair(key, value) == [k |-> key, v |-> value]

JStr(x) == [kind |-> "str", s |-> x, items |-> <<>>]

JOther(x) == [kind |-> "other", s |-> x, items |-> <<>>]

JDict(pairs) == [kind |-> "dict", s |-> "", items |-> pairs]

JList(members) ==
    [kind |-> "list", s |-> "",
     items |-> [i \in 1..Len(members) |-> Pair("", members[i])]]

\* key in d
has_key(d, key) == \E i \in 1..Len(d.items) : d.items[i].k = key

\* d.get(key)
dict_get(d, key) ==
    IF has_key(d, key)
    THEN d.items[CHOOSE i \in 1..Len(d.items) : d.items[i].k = key].v
    ELSE JOther("None")

\* d.pop(key, None), as the dict that is left
dict_pop(d, key) == JDict(SelectSeq(d.items, LAMBDA e : e.k # key))

allowed_formats == {JStr("enum"), JStr("date-time")}

\* The removals clean_gemini_schema makes in one dict (server.py:397-406).
strip_keywords(schema) ==
    LET popped == dict_pop(dict_pop(schema, "additionalProperties"), "default")
    IN  IF /\ dict_get(popped, "type") = JStr("string")
           /\ has_key(popped, "format")
           /\ dict_get(popped, "format") \notin allowed_formats
        THEN dict_pop(popped, "format")
        ELSE popped

RECURSIVE clean_gemini_schema(_)
\* clean_gemini_schema that cleans the outermost dict only.
clean_gemini_schema_Shallow(schema) ==
    IF schema.kind = "dict" THEN strip_keywords(schema) ELSE schema

\* clean_gemini_schema
clean_gemini_schema(schema) ==
    IF schema.kind = "dict"
    THEN LET kept == strip_keywords(schema)
         IN  JDict([i \in 1..Len(kept.items) |->
                      Pair(kept.items[i].k, clean_gemini_schema(kept.items[i].v))])
    ELSE IF schema.kind = "list"
    THEN [schema EXCEPT !.items =
            [i \in 1..Len(schema.items) |->
               Pair("", clean_gemini_schema(schema.items[i].v))]]
    ELSE schema

\* Schemas of the tools of a request.
StringSchema(format, has_default) ==
    JDict(<<Pair("type", JStr("string"))>>
          \o (IF format = Absent THEN <<>> ELSE <<Pair("format", JStr(format))>>)
          \o (IF has_default THEN <<Pair("default", JStr("x"))>> ELSE <<>>))

IntegerSchema == JDict(<<Pair("type", JStr("integer")), Pair("format", JStr("int32"))>>)

ObjectSchema(child, closed) ==
    JDict(<<Pair("type", JStr("object")),
            Pair("properties", JDict(<<Pair("q", child)>>))>>
          \o (IF closed THEN <<Pair("additionalProperties", JOther("false"))>>
              ELSE <<>>))

ArraySchema(child) == JDict(<<Pair("type", JStr("array")), Pair("items", child)>>)

AnyOfSchema(child) == JDict(<<Pair("anyOf", JList(<<child, IntegerSchema>>))>>)

RECURSIVE SchemasTo(_)
SchemasTo(depth) ==
    IF depth = 0
    THEN {StringSchema("uri", TRUE), StringSchema("date-time", FALSE), IntegerSchema}
    ELSE LET sub == SchemasTo(depth - 1)
         IN  sub \cup {ObjectSchema(c, closed) : c \in sub, closed \in BOOLEAN}
                 \cup {ArraySchema(c) : c \in sub}
                 \cup {AnyOfSchema(c) : c \in sub}

\* Tool.input_schema is a Dict[str, Any]: any dict, with or without the
\* type and properties keys.
InputSchemas ==
    SchemasTo(MaxDepth)
    \cup {JDict(<<>>), JDict(<<Pair("type", JStr("object"))>>),
          JDict(<<Pair("properties", JDict(<<Pair("q", IntegerSchema)>>))>>)}

\* The valid empty schema (server.py:953).
EmptySchema == JDict(<<Pair("type", JStr("object")), Pair("properties", JDict(<<>>))>>)

\* invalid_schema that asks for one of the two keys only.
invalid_schema_EitherKey(input_schema) ==
    \/ input_schema.kind # "dict"
    \/ ~has_key(input_schema, "type") /\ ~has_key(input_schema, "properties")

\* The test of server.py:951.
invalid_schema(input_schema) ==
    \/ input_schema.kind # "dict"
    \/ ~has_key(input_schema, "type")
    \/ ~has_key(input_schema, "properties")

\* One iteration of the tools loop (server.py:933-968).
openai_tool(tool, is_gemini_model) ==
    LET input_schema == IF invalid_schema(tool.input_schema) THEN EmptySchema
                        ELSE tool.input_schema
    IN  [name |-> tool.name,
         parameters |-> IF is_gemini_model THEN clean_gemini_schema(input_schema)
                        ELSE input_schema]

\* MessagesRequest.tool_choice, an Optional[Dict[str, Any]]: None, or a dict
\* with or without a type key, a name key and further keys.
ToolChoices ==
    {NoChoice}
    \cup {[present |-> TRUE, type |-> t, name |-> n, other |-> o] :
            t \in {Absent, "auto", "any", "tool", "none"},
            n \in {Absent, "f"}, o \in BOOLEAN}

\* bool(tool_choice): None and the empty dict are falsy.
truthy_choice(tool_choice) ==
    /\ tool_choice.present
    /\ tool_choice.type # Absent \/ tool_choice.name # Absent \/ tool_choice.other

\* The tool_choice of the litellm request (server.py:972-992); kind Absent
\* when the key is not set.
convert_tool_choice(tool_choice) ==
    IF ~truthy_choice(tool_choice) THEN [kind |-> Absent, name |-> Absent]
    ELSE IF tool_choice.type = "auto" THEN [kind |-> "auto", name |-> Absent]
    ELSE IF tool_choice.type = "any" THEN [kind |-> "any", name |-> Absent]
    ELSE IF tool_choice.type = "tool" /\ tool_choice.name # Absent
         THEN [kind |-> "function", name |-> tool_choice.name]
    ELSE [kind |-> "auto", name |-> Absent]

(* messages *)

\* Blocks of a message.
MaxBlocks == 2

\* Items of a tool result given as a list.
MaxItems == 1

\* The content of a tool_result block: None, a str, a dict or a list of
\* items; an item is a text dict, a str or a dict without a text key.
ResultItem(kind, text) == [kind |-> kind, text |-> text]

\* The texts of tool results: one without and one with a trailing newline.
ResultTexts == {"42", "ok\n"}

ResultItems ==
    {ResultItem("text", t) : t \in ResultTexts \cup {BadContent}}
    \cup {ResultItem("str", "")}

ResultContent(kind, text, items) == [kind |-> kind, s |-> text, items |-> items]

NoContent == ResultContent("none", "", <<>>)

ResultContents ==
    {NoContent}
    \cup {ResultContent("str", t, <<>>) : t \in ResultTexts}
    \cup {ResultContent("dict", "", <<i>>) :
            i \in {ResultItem("text", t) : t \in ResultTexts \cup {BadContent}}
                  \cup {ResultItem("obj", "a=1")}}
    \cup UNION {{ResultContent("list", "", items) : items \in [1..n -> ResultItems]} :
                  n \in 0..MaxItems}

\* The text an item adds to the result (server.py:759-774).
item_text(item) == IF item.kind = "obj" THEN json_dumps(item.text) ELSE item.text

\* A str as pieces that are all whitespace or free of leading and trailing
\* whitespace.
text_pieces(text) == IF text = "ok\n" THEN <<"ok", "\n">> ELSE <<text>>

RECURSIVE item_lines(_)
item_lines(items) ==
    IF items = <<>> THEN <<>>
    ELSE text_pieces(item_text(Head(items))) \o <<"\n">> \o item_lines(Tail(items))

\* `result += item.get("text", "") + "\n"` with a text that is not a str
\* raises TypeError (server.py:760).
TypeErrorRaised == "<TypeError>"

\* parse_tool_result_content
parse_tool_result_content(content) ==
    IF content.kind = "none" THEN "No content provided"
    ELSE IF content.kind = "str" THEN content.s
    ELSE IF content.kind = "list"
    THEN (IF \E i \in 1..Len(content.items) :
                content.items[i].kind = "text" /\ content.items[i].text = BadContent
          THEN TypeErrorRaised
          ELSE strip(item_lines(content.items)))
    ELSE item_text(content.items[1])

\* Content blocks of a message.
Block(type, text, id, name, input, content) ==
    [type |-> type, text |-> text, id |-> id, name |-> name, input |-> input,
     content |-> content]

TextBlock(text) == Block("text", text, "", "", "", NoContent)

ImageBlock == Block("image", "", "", "", "", NoContent)

ToolUseBlock(id, name, input) == Block("tool_use", "", id, name, input, NoContent)

ToolResultBlock(tool_use_id, content) == Block("tool_result", "", tool_use_id, "", "", content)

\* The tool result contents that occur beside other blocks: None, each
\* str, a text with a trailing newline as a list and as a dict, and the
\* list whose text is not a str.
BlockContents ==
    {NoContent}
    \cup {ResultContent("str", t, <<>>) : t \in ResultTexts}
    \cup {ResultContent("list", "", <<ResultItem("text", t)>>) : t \in {"ok\n", BadContent}}
    \cup {ResultContent("dict", "", <<ResultItem("text", "ok\n")>>)}

Blocks ==
    {TextBlock(t) : t \in {"hi", " "}}
    \cup {ImageBlock}
    \cup {ToolUseBlock(tool_id(i), tool_name(i), "a=1") : i \in 0..1}
    \cup {ToolResultBlock(tool_id(0), c) : c \in BlockContents}
    \cup {ToolResultBlock(tool_id(1), ResultContent("str", "42", <<>>))}

\* A Message: str content, or a list of blocks.
Message(role, is_str, text, blocks) ==
    [role |-> role, is_str |-> is_str, text |-> text, blocks |-> blocks]

\* The messages explored: a str, every list of up to MaxBlocks blocks, and
\* one tool result with each content.
Messages ==
    {Message(r, TRUE, "hi", <<>>) : r \in {"user", "assistant"}}
    \cup UNION {{Message(r, FALSE, "", bs) : r \in {"user", "assistant"},
                                             bs \in [1..n -> Blocks]} :
                  n \in 0..MaxBlocks}
    \cup {Message("user", FALSE, "", <<ToolResultBlock(tool_id(0), c)>>) :
            c \in ResultContents}

\* A message of the litellm request: content is a str, a list of blocks
\* (content_kind "list") or not set (content_kind Absent).
OutMessage(role, content_kind, content, blocks, tool_call_id, tool_calls) ==
    [role |-> role, content_kind |-> content_kind, content |-> content,
     blocks |-> blocks, tool_call_id |-> tool_call_id, tool_calls |-> tool_calls]

ToolMessage(tool_call_id, content) ==
    OutMessage("tool", "str", content, <<>>, tool_call_id, <<>>)

HasBlock(content, type) == \E i \in 1..Len(content) : content[i].type = type

RECURSIVE tool_result_messages_FirstOnly(_)
\* tool_result_messages that stops after the first tool_result block.
tool_result_messages_FirstOnly(content) ==
    IF content = <<>> THEN <<>>
    ELSE IF Head(content).type = "tool_result"
    THEN <<ToolMessage(Head(content).id, parse_tool_result_content(Head(content).content))>>
    ELSE tool_result_messages_FirstOnly(Tail(content))

RECURSIVE tool_result_messages(_)
\* The loop over a user message that has a tool_result block
\* (server.py:824-838).
tool_result_messages(content) ==
    IF content = <<>> THEN <<>>
    ELSE LET block == Head(content)
             rest == tool_result_messages(Tail(content))
         IN  IF block.type = "tool_result"
             THEN <<ToolMessage(block.id, parse_tool_result_content(block.content))>>
                  \o rest
             ELSE IF block.type = "text" /\ block.text \notin Whitespace
             THEN <<OutMessage("user", "str", block.text, <<>>, Absent, <<>>)>> \o rest
             ELSE rest

RECURSIVE tool_calls_of(_)
tool_calls_of(content) ==
    IF content = <<>> THEN <<>>
    ELSE IF Head(content).type = "tool_use"
    THEN <<[id |-> Head(content).id, name |-> Head(content).name,
            arguments |-> json_dumps(Head(content).input)]>>
         \o tool_calls_of(Tail(content))
    ELSE tool_calls_of(Tail(content))

\* " ".join(text_parts), as pieces
RECURSIVE text_parts_joined(_)
text_parts_joined(content) ==
    LET texts == SelectSeq(content, LAMBDA b : b.type = "text")
    IN  IF texts = <<>> THEN <<>>
        ELSE IF Len(texts) = 1 THEN <<texts[1].text>>
        ELSE <<texts[1].text, " ">> \o text_parts_joined(Tail(texts))

\* The assistant message built for a message with a tool_use block
\* (server.py:841-870).
assistant_message(content) ==
    LET text == strip(text_parts_joined(content))
    IN  IF text = ""
        THEN OutMessage("assistant", Absent, "", <<>>, Absent, tool_calls_of(content))
        ELSE OutMessage("assistant", "str", text, <<>>, Absent, tool_calls_of(content))

\* processed_content (server.py:876-888): text and image blocks are kept.
processed_content(content) ==
    LET kept == SelectSeq(content, LAMBDA b : b.type \in {"text", "image"})
    IN  [i \in 1..Len(kept) |-> [type |-> kept[i].type, text |-> kept[i].text]]

\* The body of the loop over anthropic_request.messages (server.py:813-893).
convert_message(msg) ==
    IF msg.is_str
    THEN <<OutMessage(msg.role, "str", msg.text, <<>>, Absent, <<>>)>>
    ELSE IF msg.role = "user" /\ HasBlock(msg.blocks, "tool_result")
    THEN tool_result_messages(msg.blocks)
    ELSE IF msg.role = "assistant" /\ HasBlock(msg.blocks, "tool_use")
    THEN <<assistant_message(msg.blocks)>>
    ELSE <<OutMessage(msg.role, "list", "", processed_content(msg.blocks), Absent, <<>>)>>

RECURSIVE convert_messages(_)
convert_messages(msgs) ==
    IF msgs = <<>> THEN <<>>
    ELSE convert_message(Head(msgs)) \o convert_messages(Tail(msgs))

\* The ceiling of server.py:902.
MaxTokensCap == 16384

Min(a, b) == IF a <= b THEN a ELSE b

\* convert_anthropic_to_litellm: the litellm request built from a
\* MessagesRequest.
convert_anthropic_to_litellm(anthropic_request) ==
    LET model == anthropic_request.model
        system == IF anthropic_request.system \notin {NoneStr, ""}
                  THEN <<OutMessage("system", "str", anthropic_request.system,
                                    <<>>, Absent, <<>>)>>
                  ELSE <<>>
        is_gemini_model == startswith(model, "gemini/")
    IN  [called |-> FALSE,
         model |-> model,
         messages |-> system \o convert_messages(anthropic_request.messages),
         max_tokens |-> IF startswith(model, "openai/") \/ startswith(model, "gemini/")
                        THEN Min(anthropic_request.max_tokens, MaxTokensCap)
                        ELSE anthropic_request.max_tokens,
         thinking |-> IF anthropic_request.thinking # NoneStr
                         /\ startswith(model, "anthropic/")
                      THEN anthropic_request.thinking ELSE Absent,
         tools |-> [i \in 1..Len(anthropic_request.tools) |->
                      openai_tool(anthropic_request.tools[i], is_gemini_model)],
         tool_choice |-> convert_tool_choice(anthropic_request.tool_choice),
         api_key |-> Absent]

(* create_message *)

\* ProviderConfig.api_format of the providers of the provider table.
provider_api_format(p) == IF p = "anthropic" THEN "anthropic" ELSE "openai"

\* The api key and the model id create_message sets on the litellm request
\* (server.py:1777-1804); api_key names the provider, or the environment
\* variable of the fallback branch.
select_provider(model) ==
    LET provider_name == find_model_provider(Join(model))
    IN  IF provider_name # NoneStr
        THEN [api_key |-> provider_name,
              model |-> IF provider_api_format(provider_name) = "openai"
                        THEN (IF startswith(model, "openai/") THEN model
                              ELSE <<"openai/">> \o model)
                        ELSE (IF startswith(model, provider_name \o "/") THEN model
                              ELSE <<provider_name \o "/">> \o model)]
        ELSE [api_key |-> IF startswith(model, "openai/") THEN "OPENAI_API_KEY"
                          ELSE IF startswith(model, "gemini/") THEN "GEMINI_API_KEY"
                          ELSE "ANTHROPIC_API_KEY",
              model |-> model]

RECURSIVE block_lines(_)
block_lines(blocks) ==
    IF blocks = <<>> THEN <<>>
    ELSE (IF Head(blocks).type = "text" THEN <<Head(blocks).text, "\n">>
          ELSE <<"[Image content - not displayed in text format]", "\n">>)
         \o block_lines(Tail(blocks))

\* What create_message makes of a message for a model id that contains
\* "openai" (server.py:1806-1942): the content becomes a str.
openai_message(msg) ==
    IF msg.content_kind = "list"
    THEN LET text_content == strip(block_lines(msg.blocks))
         IN  [msg EXCEPT !.content_kind = "str", !.blocks = <<>>,
                         !.content = IF text_content = "" THEN "..." ELSE text_content]
    ELSE IF msg.content_kind = Absent
    THEN [msg EXCEPT !.content_kind = "str", !.content = "..."]
    ELSE msg

\* convert_anthropic_to_litellm raises: a tool result could not be
\* flattened (server.py:835, 760).
conversion_raises(anthropic_request) ==
    LET messages == convert_messages(anthropic_request.messages)
    IN  \E i \in 1..Len(messages) :
           messages[i].role = "tool" /\ messages[i].content = TypeErrorRaised

\* The arguments of the litellm call of create_message (server.py:1775-1989).
upstream_call(anthropic_request) ==
    LET converted == convert_anthropic_to_litellm(anthropic_request)
        selected == select_provider(anthropic_request.model)
        for_openai == \E i \in 1..Len(selected.model) : selected.model[i] = "openai/"
    IN  [converted EXCEPT
           !.called = TRUE,
           !.api_key = selected.api_key,
           !.model = selected.model,
           !.messages = IF for_openai
                        THEN [i \in 1..Len(converted.messages) |->
                                openai_message(converted.messages[i])]
                        ELSE converted.messages]

\* The model ids a parsed request carries: bare names, as the aliases of
\* the configuration are, prefixed names, and a name no list knows.
RequestModels ==
    {<<"gpt-4o">>, <<"openai/", "gpt-4o">>, <<"gemini-1.5-pro">>,
     <<"gemini/", "gemini-1.5-pro">>, <<"claude-2.1">>,
     <<"anthropic/", "claude-2.1">>, <<"my-model">>}

MaxTokenValues == {1024, MaxTokensCap, 32000}

\* thinking: None, or a ThinkingConfig with enabled True or False.
ThinkingConfigs == {NoneStr, "enabled", "disabled"}

\* The schemas of the tools after the first of a request.
FurtherSchemas == {JDict(<<>>), ObjectSchema(StringSchema("uri", TRUE), TRUE)}

ToolLists ==
    UNION {{[i \in 1..n |-> [name |-> tool_name(i - 1),
                             input_schema |-> IF i = 1 THEN first ELSE further[i]]] :
              first \in InputSchemas, further \in [1..n -> FurtherSchemas]} :
             n \in 1..MaxTools}

BaseRequest(model) ==
    [model |-> model, max_tokens |-> 1024, thinking |-> NoneStr, system |-> NoneStr,
     tools |-> <<>>, tool_choice |-> NoChoice,
     messages |-> <<Message("user", TRUE, "hi", <<>>)>>, stream |-> FALSE]

\* The model ids the messages are explored with: one whose litellm id
\* contains "openai" and one whose id does not.
MessageModels == {<<"openai/", "gpt-4o">>, <<"claude-2.1">>}

\* The requests explored: the generation parameters, the tools and the
\* message vary one group at a time, each with the model id.
ParsedRequest(r) ==
    \/ \E m \in RequestModels, n \in MaxTokenValues, t \in ThinkingConfigs,
          c \in ToolChoices :
          r = [BaseRequest(m) EXCEPT !.max_tokens = n, !.thinking = t, !.tool_choice = c]
    \/ \E m \in RequestModels, ts \in ToolLists :
          r = [BaseRequest(m) EXCEPT !.tools = ts]
    \/ \E m \in MessageModels, sys \in {NoneStr, "be brief"}, msg \in Messages :
          r = [BaseRequest(m) EXCEPT !.system = sys, !.messages = <<msg>>]

\* create_message with the proxy enabled, up to its litellm call
\* (server.py:1724-1989).
CreateMessage ==
    /\ request # NoRequest
    /\ ~litellm_request.called
    /\ reply.kind = "none"
    /\ current_config.proxy_enabled
    /\ IF conversion_raises(request)
       THEN /\ debug_logs' = add_debug_log(
                   add_debug_log(debug_logs,
                      [type |-> "request", stop_reason |-> NoneStr,
                       input_tokens |-> 0, output_tokens |-> 0]),
                   ErrorLog)
            /\ reply' = Reply("error", 500, "TypeError")
            /\ UNCHANGED <<litellm_request, invocations>>
       ELSE /\ debug_logs' = add_debug_log(debug_logs,
                   [type |-> "request", stop_reason |-> NoneStr,
                    input_tokens |-> 0, output_tokens |-> 0])
            /\ litellm_request' = upstream_call(request)
            /\ invocations' = [invocations EXCEPT !.litellm = @ + 1]
            /\ UNCHANGED reply
    /\ UNCHANGED <<streamVars, configVars, routed, status_read, request,
                   ANTHROPIC_API_KEY, suspended, conversation_calls, raw_request,
                   forwarded, litellm_response, anthropic_response>>

TranslateInit ==
    /\ StreamInit
    /\ ConfigInit(Providers)
    /\ status_read = StatusUnread
    /\ ParsedRequest(request)
    /\ litellm_request = NotCalled
    /\ ExchangeIdle

TranslateNext == CreateMessage

SpecTranslate == TranslateInit /\ [][TranslateNext]_vars

(* --------------------------------- C15 --------------------------------- *)

\* The dialect of the backend the litellm call goes to: the api_format of
\* the provider selected, or the dialect of the fallback key.
TargetDialect ==
    IF litellm_request.api_key \in Providers
    THEN provider_api_format(litellm_request.api_key)
    ELSE IF litellm_request.api_key = "OPENAI_API_KEY" THEN "openai"
    ELSE IF litellm_request.api_key = "GEMINI_API_KEY" THEN "gemini"
    ELSE "anthropic"

\* C15: the max_tokens sent to an OpenAI-compatible or Gemini backend, by
\* whatever model id the backend was reached, is min(requested, 16384); the
\* max_tokens sent to an Anthropic-native backend is the requested value.
C15_MaxTokensClamped ==
    litellm_request.called =>
        IF TargetDialect \in {"openai", "gemini"}
        THEN litellm_request.max_tokens = Min(request.max_tokens, 16384)
        ELSE litellm_request.max_tokens = request.max_tokens

(* --------------------------------- C16 --------------------------------- *)

C16_Keys(d) == {d.items[i].k : i \in 1..Len(d.items)}

C16_Malformed(schema) ==
    schema.kind # "dict" \/ "type" \notin C16_Keys(schema)
                         \/ "properties" \notin C16_Keys(schema)

\* C16: the parameters sent for a tool whose schema is not an object, or has
\* no type, or has no properties, are exactly {type: object, properties: {}};
\* a schema with both keys is not replaced: its type and the names of its
\* properties are sent, and all of it when the backend is not Gemini.
C16_SchemaNormalized ==
    litellm_request.called =>
        /\ Len(litellm_request.tools) = Len(request.tools)
        /\ \A i \in 1..Len(request.tools) :
             LET schema == request.tools[i].input_schema
                 parameters == litellm_request.tools[i].parameters
             IN  IF C16_Malformed(schema)
                 THEN parameters = JDict(<<Pair("type", JStr("object")),
                                           Pair("properties", JDict(<<>>))>>)
                 ELSE /\ dict_get(parameters, "type") = dict_get(schema, "type")
                      /\ C16_Keys(dict_get(parameters, "properties"))
                           = C16_Keys(dict_get(schema, "properties"))
                      /\ ~startswith(litellm_request.model, "gemini/")
                           => parameters = schema

\* A tool whose schema has a type and no properties was sent, and one whose
\* schema has both keys.
C16_Witness ==
    /\ litellm_request.called
    /\ \E i \in 1..Len(request.tools) :
         /\ "type" \in C16_Keys(request.tools[i].input_schema)
         /\ C16_Malformed(request.tools[i].input_schema)

(* --------------------------------- C17 --------------------------------- *)

\* No dict of the value, at any depth, has an additionalProperties or a
\* default key, and none of type string has a format other than enum and
\* date-time.
RECURSIVE C17_Stripped(_)
C17_Stripped(node) ==
    /\ node.kind = "dict" =>
         /\ ~has_key(node, "additionalProperties")
         /\ ~has_key(node, "default")
         /\ (dict_get(node, "type") = JStr("string") /\ has_key(node, "format"))
              => dict_get(node, "format").s \in {"enum", "date-time"}
    /\ \A i \in 1..Len(node.items) : C17_Stripped(node.items[i].v)

\* C17: the tool parameters sent to a Gemini backend hold no
\* additionalProperties and no default keyword at any depth, under
\* properties, items and list members alike, and no string-typed node with a
\* format other than enum and date-time; for another backend a schema that
\* has a type and properties is sent as it is.
C17_GeminiSchemaStripped ==
    litellm_request.called =>
        \A i \in 1..Len(request.tools) :
            IF startswith(litellm_request.model, "gemini/")
            THEN C17_Stripped(litellm_request.tools[i].parameters)
            ELSE ~C16_Malformed(request.tools[i].input_schema) =>
                    litellm_request.tools[i].parameters = request.tools[i].input_schema

\* A schema with a default and a uri format two levels down went to Gemini.
C17_Witness ==
    /\ litellm_request.called
    /\ startswith(litellm_request.model, "gemini/")
    /\ Len(request.tools) >= 1
    /\ request.tools[1].input_schema
         = ObjectSchema(ArraySchema(StringSchema("uri", TRUE)), TRUE)

(* --------------------------------- C18 --------------------------------- *)

\* C18: the litellm request carries a thinking directive exactly when the
\* inbound request has one and the backend is Anthropic-native, never for
\* an OpenAI-compatible or Gemini backend; and no message sent holds a
\* thinking block.
C18_ThinkingOnlyToAnthropic ==
    litellm_request.called =>
        /\ (litellm_request.thinking # Absent)
             <=> (request.thinking # NoneStr /\ TargetDialect = "anthropic")
        /\ \A i \in 1..Len(litellm_request.messages) :
             \A j \in 1..Len(litellm_request.messages[i].blocks) :
                litellm_request.messages[i].blocks[j].type # "thinking"

(* --------------------------------- C19 --------------------------------- *)

C19_Directive(kind, name) == [kind |-> kind, name |-> name]

\* C19: a tool_choice of type auto is sent as auto, one of type any as any,
\* one of type tool with a name as the forced function call of that name,
\* and a tool_choice of any other shape as auto.
C19_ToolChoiceMapped ==
    (litellm_request.called /\ request.tool_choice.present) =>
        LET choice == request.tool_choice
        IN  litellm_request.tool_choice =
              (IF choice.type = "auto" THEN C19_Directive("auto", Absent)
               ELSE IF choice.type = "any" THEN C19_Directive("any", Absent)
               ELSE IF choice.type = "tool" /\ choice.name # Absent
                    THEN C19_Directive("function", choice.name)
               ELSE C19_Directive("auto", Absent))

(* --------------------------------- C20 --------------------------------- *)

\* A user message that is a list of blocks, all of them tool_result blocks.
C20_AllToolResults(msg) ==
    /\ ~msg.is_str
    /\ msg.role = "user"
    /\ msg.blocks # <<>>
    /\ \A i \in 1..Len(msg.blocks) : msg.blocks[i].type = "tool_result"

\* The messages sent for the conversation, the system message left out.
C20_Sent ==
    IF request.system = NoneStr THEN litellm_request.messages
    ELSE Tail(litellm_request.messages)

C21_AssistantToolUse(msg) ==
    /\ ~msg.is_str
    /\ msg.role = "assistant"
    /\ \E i \in 1..Len(msg.blocks) : msg.blocks[i].type = "tool_use"

\* The tool_use blocks of a message and its text blocks, in order.
C21_ToolUses(msg) == SelectSeq(msg.blocks, LAMBDA b : b.type = "tool_use")

C21_Texts(msg) == SelectSeq(msg.blocks, LAMBDA b : b.type = "text")

\* C21: an assistant message with tool_use blocks is sent as exactly one
\* assistant message; its tool-call list has one entry per tool_use block,
\* in order, with the id, the name and the JSON-encoded input of the block;
\* its content is the joined text of the text blocks, and there is no
\* content field at all (no placeholder either) when there is no text.
C21_AssistantToolCalls ==
    (litellm_request.called /\ Len(request.messages) = 1
       /\ C21_AssistantToolUse(request.messages[1])) =>
        LET msg == request.messages[1]
            uses == C21_ToolUses(msg)
            text == strip(text_parts_joined(msg.blocks))
        IN  /\ Len(C20_Sent) = 1
            /\ C20_Sent[1].role = "assistant"
            /\ Len(C20_Sent[1].tool_calls) = Len(uses)
            /\ \A i \in 1..Len(uses) :
                 /\ C20_Sent[1].tool_calls[i].id = uses[i].id
                 /\ C20_Sent[1].tool_calls[i].name = uses[i].name
                 /\ C20_Sent[1].tool_calls[i].arguments = json_dumps(uses[i].input)
            /\ IF C21_Texts(msg) = <<>> \/ text = ""
               THEN C20_Sent[1].content_kind = Absent
               ELSE C20_Sent[1].content_kind = "str" /\ C20_Sent[1].content = text

(* ----------------------- the response translator ----------------------- *)

\* Tool calls of one backend response.
MaxCalls == 2

\* function.arguments of a tool call given as a str: a JSON object, an empty
\* JSON object, a JSON array, and two strs that are not JSON.
ArgumentStrings == {"{\"a\":1}", "{}", "[1]", "oops", ""}

\* The input of a tool_use block: a dict or another JSON value; raw marks
\* the dict {"raw": value}.
ToolInput(kind, raw, value) == [kind |-> kind, raw |-> raw, value |-> value]

\* json.loads of the argument strs: ok FALSE stands for JSONDecodeError.
json_loads(s) ==
    IF s = "{\"a\":1}" THEN [ok |-> TRUE, parsed |-> ToolInput("dict", FALSE, "a=1")]
    ELSE IF s = "{}" THEN [ok |-> TRUE, parsed |-> ToolInput("dict", FALSE, "")]
    ELSE IF s = "[1]" THEN [ok |-> TRUE, parsed |-> ToolInput("list", FALSE, "1")]
    ELSE [ok |-> FALSE, parsed |-> ToolInput("none", FALSE, "")]

\* One entry of message.tool_calls; an id or a name of Absent is a key that
\* is not there, arguments are a str or (isDict) the dict {"a": 1}.
ResponseToolCall(id, name, isDict, arguments) ==
    [id |-> id, name |-> name, isDict |-> isDict, arguments |-> arguments]

ResponseToolCalls ==
    {ResponseToolCall(tool_id(0), tool_name(0), FALSE, a) : a \in ArgumentStrings}
    \cup {ResponseToolCall(tool_id(1), tool_name(1), TRUE, "a=1"),
          ResponseToolCall(Absent, Absent, FALSE, "{\"a\":1}")}

\* usage of a backend response: token counts, counts of None, or no usage.
Usage(present, prompt_tokens, completion_tokens) ==
    [present |-> present, prompt_tokens |-> prompt_tokens,
     completion_tokens |-> completion_tokens]

Usages == {Usage(TRUE, 7, 3), Usage(TRUE, NoneIdx, NoneIdx), Usage(FALSE, 0, 0)}

FinishReasons == {"stop", "length", "tool_calls", "content_filter", NoneStr}

\* message.content: None, "", a text, or a value that is not a str.
ResponseContents == {NoneStr, "", "Hello", BadContent}

\* A response of litellm.completion; has_choice FALSE when choices is empty.
LitellmResponse(has_choice, content, tool_calls, finish_reason, usage) ==
    [kind |-> "response", has_choice |-> has_choice, content |-> content,
     tool_calls |-> tool_calls, finish_reason |-> finish_reason, usage |-> usage,
     status_code |-> 200]

\* A block of MessagesResponse.content.
ResponseBlock(type, text, id, name, input) ==
    [type |-> type, text |-> text, id |-> id, name |-> name, input |-> input]

NoInput == ToolInput("none", FALSE, "")

ResponseText(text) == ResponseBlock("text", text, "", "", NoInput)

\* f"tool_{uuid.uuid4()}"
GeneratedToolId == "tool_<uuid>"

\* The input of the tool_use block of a tool call (server.py:1078-1084).
tool_use_input(call) ==
    IF call.isDict THEN ToolInput("dict", FALSE, call.arguments)
    ELSE LET loaded == json_loads(call.arguments)
         IN  IF loaded.ok THEN loaded.parsed
             ELSE ToolInput("dict", TRUE, call.arguments)

\* The tool_use block appended for a tool call (server.py:1063-1093).
tool_use_block(call) ==
    ResponseBlock("tool_use", "",
                  IF call.id = Absent THEN GeneratedToolId ELSE call.id,
                  IF call.name = Absent THEN "" ELSE call.name,
                  tool_use_input(call))

\* Map OpenAI finish_reason to Anthropic stop_reason (server.py:1103-1112).
ResponseStopReason(finish_reason) ==
    IF finish_reason = "stop" THEN "end_turn"
    ELSE IF finish_reason = "length" THEN "max_tokens"
    ELSE IF finish_reason = "tool_calls" THEN "tool_use"
    ELSE "end_turn"

\* valid_block that looks at the text blocks only.
valid_block_TextOnly(block) == block.type = "text" => block.text # BadContent

\* pydantic's validation of one block of MessagesResponse.content:
\* ContentBlockText.text is a str, ContentBlockToolUse.input a dict.
valid_block(block) ==
    IF block.type = "text" THEN block.text # BadContent
    ELSE block.input.kind = "dict"

\* str(e) inside the text of the fallback reply (server.py:1145).
ErrorText == "Error converting response: <validation error>. Please check server logs."

\* The reply of the except branch (server.py:1134-1148).
\* The model id a response reports: the model of the request object the
\* handler was called with (server.py:1121, 1143).
response_model_CurrentAlias(original_request) == <<current_config.big_model>>

response_model(original_request) == original_request.model

fallback_response(original_request) ==
    [returned |-> TRUE, model |-> response_model(original_request),
     content |-> <<ResponseText(ErrorText)>>, stop_reason |-> "end_turn",
     input_tokens |-> 0, output_tokens |-> 0]

\* response_content that leaves an empty list empty.
response_content_AsIs(blocks) == blocks

\* "Make sure content is never empty" (server.py:1114-1116).
response_content(blocks) == IF blocks = <<>> THEN <<ResponseText("")>> ELSE blocks

\* convert_litellm_to_anthropic: the MessagesResponse made of a backend
\* response.
convert_litellm_to_anthropic(response, original_request) ==
    LET content_text == IF response.has_choice THEN response.content ELSE ""
        tool_calls == IF response.has_choice THEN response.tool_calls ELSE <<>>
        finish_reason == IF response.has_choice THEN response.finish_reason ELSE "stop"
        text_blocks == IF content_text \notin {NoneStr, ""}
                       THEN <<ResponseText(content_text)>> ELSE <<>>
        blocks == text_blocks
                  \o [i \in 1..Len(tool_calls) |-> tool_use_block(tool_calls[i])]
        content == response_content(blocks)
        prompt_tokens == IF response.usage.present THEN response.usage.prompt_tokens
                         ELSE 0
        completion_tokens == IF response.usage.present
                             THEN response.usage.completion_tokens ELSE 0
        valid == /\ \A i \in 1..Len(content) : valid_block(content[i])
                 /\ prompt_tokens # NoneIdx
                 /\ completion_tokens # NoneIdx
    IN  IF valid
        THEN [returned |-> TRUE, model |-> response_model(original_request),
              content |-> content, stop_reason |-> ResponseStopReason(finish_reason),
              input_tokens |-> prompt_tokens, output_tokens |-> completion_tokens]
        ELSE fallback_response(original_request)

(* ------------------- create_message after the litellm call -------------- *)

\* litellm.completion returned `response`: the rest of the non-streaming
\* branch of create_message (server.py:1985-2062).
Completion(response) ==
    /\ litellm_request.called
    /\ ~request.stream
    /\ litellm_response.kind = "none"
    /\ reply.kind = "none"
    /\ litellm_response' = response
    /\ anthropic_response' = convert_litellm_to_anthropic(response, request)
    /\ debug_logs' = add_debug_log(debug_logs,
          ResponseLog(anthropic_response'.stop_reason, anthropic_response'.input_tokens,
                      anthropic_response'.output_tokens))
    /\ reply' = Reply("response", 200, Absent)
    /\ conversation_calls' =
          conversation_calls
          \o record_conversation(request,
                strip(text_block_lines(anthropic_response'.content)))
    /\ UNCHANGED <<streamVars, configVars, routed, requestVars, ANTHROPIC_API_KEY, suspended,
                   raw_request, forwarded, invocations>>

\* litellm.acompletion returned the generator of a streaming call: the
\* StreamingResponse over handle_streaming is returned (server.py:1965-1970).
StreamingReply ==
    /\ litellm_request.called
    /\ request.stream
    /\ litellm_response.kind = "none"
    /\ reply.kind = "none"
    /\ litellm_response' = [NoLitellmResponse EXCEPT !.kind = "stream", !.status_code = 200]
    /\ reply' = Reply("stream", 200, Absent)
    /\ UNCHANGED <<streamVars, debug_logs, configVars, routed, requestVars,
                   ANTHROPIC_API_KEY, suspended, conversation_calls, raw_request,
                   forwarded, invocations, anthropic_response>>

\* The status codes of the exceptions litellm raises: a timeout (408), a
\* rate limit (429), a server error (500), and 0 for an exception that has
\* no status_code attribute.
LitellmErrors == {0, 408, 429, 500}

\* The litellm call raised (an upstream failure or the 300 s timeout): the
\* except branch of create_message (server.py:2064-2136).
CompletionRaises(status_code) ==
    /\ litellm_request.called
    /\ litellm_response.kind = "none"
    /\ reply.kind = "none"
    /\ litellm_response' = [NoLitellmResponse EXCEPT !.kind = "raised",
                                                     !.status_code = status_code]
    /\ debug_logs' = add_debug_log(debug_logs, ErrorLog)
    /\ reply' = Reply("error", IF status_code = 0 THEN 500 ELSE status_code, "litellm")
    /\ UNCHANGED <<streamVars, configVars, routed, requestVars, ANTHROPIC_API_KEY, suspended,
                   conversation_calls,
                   raw_request, forwarded, invocations, anthropic_response>>

\* The backend responses explored: the response without a choice; every
\* content, finish reason and usage with at most one tool call; and every
\* list of up to MaxCalls tool calls with and without text.
LitellmResponses ==
    {LitellmResponse(FALSE, NoneStr, <<>>, NoneStr, u) : u \in Usages}
    \cup UNION {{LitellmResponse(TRUE, c, calls, fr, u) :
                   c \in ResponseContents, calls \in [1..n -> ResponseToolCalls],
                   fr \in FinishReasons, u \in Usages} :
                  n \in 0..1}
    \cup UNION {{LitellmResponse(TRUE, c, calls, "tool_calls", Usage(TRUE, 7, 3)) :
                   c \in {NoneStr, "Hello"}, calls \in [1..n -> ResponseToolCalls]} :
                  n \in 2..MaxCalls}

\* The conversations the responses are translated for.
RespondMessages ==
    {Message("user", TRUE, "hi", <<>>),
     Message("assistant", FALSE, "",
             <<TextBlock("hi"), ToolUseBlock(tool_id(0), tool_name(0), "a=1")>>),
     Message("user", FALSE, "",
             <<ToolResultBlock(tool_id(0), ResultContent("str", "42", <<>>)),
               ToolResultBlock(tool_id(1), ResultContent("str", "42", <<>>))>>)}

RespondInit ==
    /\ StreamInit
    /\ ConfigInit(Providers)
    /\ status_read = StatusUnread
    /\ \E m \in MessageModels, msg \in RespondMessages :
          request = [BaseRequest(m) EXCEPT !.messages = <<msg>>]
    /\ litellm_request = NotCalled
    /\ ExchangeIdle

RespondNext ==
    \/ CreateMessage
    \/ /\ litellm_request.called /\ litellm_response.kind = "none"
       /\ \E response \in LitellmResponses : Completion(response)
    \/ \E status_code \in LitellmErrors : CompletionRaises(status_code)

\* A non-streaming request with the proxy enabled, from create_message to
\* its reply, for every backend response.
SpecRespond == RespondInit /\ [][RespondNext]_vars

(* --------------------------------- C22 --------------------------------- *)

\* The <<id, name>> pairs of the tool_use blocks of the request's messages
\* and of the tool calls of the messages sent.
C22_RequestPairs ==
    UNION {{<<b.id, b.name>> :
              b \in {request.messages[i].blocks[k] :
                       k \in {n \in 1..Len(request.messages[i].blocks) :
                                request.messages[i].blocks[n].type = "tool_use"}}} :
             i \in 1..Len(request.messages)}

C22_SentPairs ==
    UNION {{<<C20_Sent[i].tool_calls[k].id, C20_Sent[i].tool_calls[k].name>> :
              k \in 1..Len(C20_Sent[i].tool_calls)} :
             i \in 1..Len(C20_Sent)}

\* The tool_use blocks of the reply, in order.
C22_ReplyToolUses ==
    SelectSeq(anthropic_response.content, LAMBDA b : b.type = "tool_use")

\* C22: the request sent has as many conversation messages as the request
\* received, with the same roles in the same order and the same tool_use
\* id/name pairs; and the reply made of the backend's response has one
\* tool_use block per tool call of the response, in order, with the id and
\* the name the tool call has.
C22_RoundTrip ==
    litellm_request.called =>
        /\ Len(C20_Sent) = Len(request.messages)
        /\ \A i \in 1..Len(request.messages) :
             C20_Sent[i].role = request.messages[i].role
        /\ C22_SentPairs = C22_RequestPairs
        /\ anthropic_response.returned =>
             LET calls == litellm_response.tool_calls
             IN  /\ Len(C22_ReplyToolUses) = Len(calls)
                 /\ \A i \in 1..Len(calls) :
                      /\ calls[i].id # Absent => C22_ReplyToolUses[i].id = calls[i].id
                      /\ calls[i].name # Absent =>
                           C22_ReplyToolUses[i].name = calls[i].name

(* --------------------------------- C23 --------------------------------- *)

\* The content is the text t as a bare str, as a list holding one text
\* block, or as a single text dict.
C23_FormOf(content, t) ==
    \/ content = ResultContent("str", t, <<>>)
    \/ content = ResultContent("list", "", <<ResultItem("text", t)>>)
    \/ content = ResultContent("dict", "", <<ResultItem("text", t)>>)

\* create_message is past the conversion of the request.
C23_Converted == litellm_request.called \/ reply.kind # "none"

\* C23: parse_tool_result_content gives the same text for a text t as a
\* bare str, as a list of one text block and as one text dict, and it gives
\* a str for every content: of the tool results of a user message, any two
\* that hold the same text in any of the three forms are sent with the same
\* content, and every one is sent with a str.
C23_SameFlattenedText ==
    (C23_Converted /\ Len(request.messages) = 1
       /\ C20_AllToolResults(request.messages[1])) =>
        LET blocks == request.messages[1].blocks
        IN  /\ litellm_request.called
            /\ \A i \in 1..Len(blocks) :
                 /\ C20_Sent[i].content_kind = "str"
                 /\ C20_Sent[i].content \notin {BadContent, TypeErrorRaised}
            /\ \A i, j \in 1..Len(blocks) : \A t \in ResultTexts :
                 (C23_FormOf(blocks[i].content, t) /\ C23_FormOf(blocks[j].content, t))
                   => C20_Sent[i].content = C20_Sent[j].content

(* --------------------------------- C24 --------------------------------- *)

\* The processing of the backend response fails: a block of the content or
\* the usage does not pass the validation of MessagesResponse.
C24_Fails ==
    /\ litellm_response.kind = "response"
    /\ \/ litellm_response.has_choice /\ litellm_response.content = BadContent
       \/ /\ litellm_response.has_choice
          /\ \E i \in 1..Len(litellm_response.tool_calls) :
               /\ ~litellm_response.tool_calls[i].isDict
               /\ litellm_response.tool_calls[i].arguments = "[1]"
       \/ /\ litellm_response.usage.present
          /\ NoneIdx \in {litellm_response.usage.prompt_tokens,
                          litellm_response.usage.completion_tokens}

\* A MessagesResponse that passes its validation: text blocks with a str,
\* tool_use blocks with a str id, a str name and a dict input, a stop_reason
\* of the Literal, token counts that are ints.
C24_Valid(response) ==
    /\ response.returned
    /\ \A i \in 1..Len(response.content) :
         LET block == response.content[i]
         IN  \/ block.type = "text" /\ block.text # BadContent
             \/ /\ block.type = "tool_use"
                /\ block.id \notin {Absent, NoneStr}
                /\ block.name \notin {Absent, NoneStr}
                /\ block.input.kind = "dict"
    /\ response.stop_reason \in {"end_turn", "max_tokens", "stop_sequence", "tool_use"}
    /\ response.input_tokens \in Nat
    /\ response.output_tokens \in Nat

\* C24: convert_litellm_to_anthropic never raises: whenever litellm
\* returned a response, create_message has a valid MessagesResponse to
\* reply with; when the processing failed, that reply is one text block
\* with the error text, 0 input and output tokens and stop_reason end_turn.
C24_NeverRaises ==
    litellm_response.kind = "response" =>
        /\ reply.kind = "response"
        /\ C24_Valid(anthropic_response)
        /\ C24_Fails =>
             /\ anthropic_response.content = <<ResponseText(ErrorText)>>
             /\ anthropic_response.input_tokens = 0
             /\ anthropic_response.output_tokens = 0
             /\ anthropic_response.stop_reason = "end_turn"

\* A response whose tool call has arguments that are a JSON array was
\* answered with the fallback reply.
C24_Witness ==
    /\ reply.kind = "response"
    /\ C24_Fails
    /\ litellm_response.content = "Hello"
    /\ Len(litellm_response.tool_calls) = 1
    /\ litellm_response.tool_calls[1].arguments = "[1]"
    /\ litellm_response.usage = Usage(TRUE, 7, 3)
    /\ anthropic_response.content = <<ResponseText(ErrorText)>>

(* --------------------------------- C25 --------------------------------- *)

\* The backend returned neither text nor tool calls.
C25_Nothing ==
    /\ litellm_response.kind = "response"
    /\ \/ ~litellm_response.has_choice
       \/ /\ litellm_response.content \in {NoneStr, ""}
          /\ litellm_response.tool_calls = <<>>

C25_StopReasons == {"end_turn", "max_tokens", "stop_sequence", "tool_use"}

\* C25 as claimed: every reply has at least one content block and a
\* stop_reason of the four; when the backend returned neither text nor tool
\* calls, the content is exactly one empty text block.
C25_OneEmptyBlock ==
    anthropic_response.returned =>
        /\ Len(anthropic_response.content) >= 1
        /\ anthropic_response.stop_reason \in C25_StopReasons
        /\ C25_Nothing => anthropic_response.content = <<ResponseText("")>>

\* C25 as amended: every reply has at least one content block and a
\* stop_reason of the four; when the backend returned neither text nor tool
\* calls, the content is exactly one text block, an empty one, or the one
\* with the error text when the translation failed internally.
C25_OneBlockAtLeast ==
    anthropic_response.returned =>
        /\ Len(anthropic_response.content) >= 1
        /\ anthropic_response.stop_reason \in C25_StopReasons
        /\ C25_Nothing =>
             anthropic_response.content =
                 IF C24_Fails THEN <<ResponseText(ErrorText)>> ELSE <<ResponseText("")>>

\* A response with content None and no tool calls, cut at the token limit,
\* was answered with one empty text block.
C25_Witness ==
    /\ anthropic_response.returned
    /\ litellm_response.has_choice
    /\ litellm_response.content = NoneStr
    /\ litellm_response.tool_calls = <<>>
    /\ litellm_response.finish_reason = "length"
    /\ anthropic_response.content = <<ResponseText("")>>
    /\ anthropic_response.stop_reason = "max_tokens"

(* --------------------------------- C26 --------------------------------- *)

\* The mapping of the backend finish reasons the claim gives.
C26_Mapping(finish_reason) ==
    CASE finish_reason = "stop" -> "end_turn"
      [] finish_reason = "length" -> "max_tokens"
      [] finish_reason = "tool_calls" -> "tool_use"
      [] OTHER -> "end_turn"

\* C26: the Streaming Reconstructor and the Response Translator map every
\* backend finish reason alike: when a fragment with a finish reason closes
\* the stream, the message_delta event sent for it and the stop reason
\* logged carry the stop_reason that convert_litellm_to_anthropic gives a
\* response with that finish reason, which is end_turn for stop, max_tokens
\* for length, tool_use for tool_calls and end_turn for any other.
C26_SameMapping ==
    [][(~has_sent_stop_reason /\ has_sent_stop_reason') =>
          LET finish_reason == consumed'[Len(consumed')].finish_reason
              translated ==
                  convert_litellm_to_anthropic(
                      LitellmResponse(TRUE, "Hello", <<>>, finish_reason,
                                      Usage(TRUE, 7, 3)),
                      NoRequest).stop_reason
          IN  /\ translated = C26_Mapping(finish_reason)
              /\ stop_reason' = translated
              /\ \E i \in 1..Len(out') :
                   /\ i > Len(out)
                   /\ out'[i] = MessageDelta(translated, out'[i].tokens)]_vars

\* A stream was closed by a fragment whose finish reason is none of stop,
\* length and tool_calls.
C26_Witness ==
    /\ has_sent_stop_reason
    /\ consumed # <<>>
    /\ consumed[Len(consumed)].finish_reason = "content_filter"
    /\ stop_reason = "end_turn"

(* --------------------------------- C27 --------------------------------- *)

\* The input the claim gives a tool call whose arguments are a str: the
\* parsed JSON value, or {"raw": arguments} when the str is not JSON.
C27_Input(arguments) ==
    IF arguments \in {"{\"a\":1}", "{}", "[1]"} THEN json_loads(arguments).parsed
    ELSE ToolInput("dict", TRUE, arguments)

\* C27: of a backend response (with a str or no content, and int or no
\* usage counts), every tool call whose arguments are a str has its tool_use
\* block in the reply, at its place among the tool_use blocks, and the input
\* of the block is the parsed value when the arguments are valid JSON and
\* {"raw": arguments} when they are not.
C27_ArgumentsParsed ==
    (/\ reply.kind = "response"
     /\ litellm_response.has_choice
     /\ litellm_response.content # BadContent
     /\ litellm_response.usage.prompt_tokens # NoneIdx) =>
        LET calls == litellm_response.tool_calls
        IN  \A i \in 1..Len(calls) :
              ~calls[i].isDict =>
                 /\ Len(C22_ReplyToolUses) = Len(calls)
                 /\ C22_ReplyToolUses[i].input = C27_Input(calls[i].arguments)

(* ------------------------- forward_to_anthropic ------------------------ *)

\* forward_headers that leaves the Authorization header of the client in.
forward_headers_KeepAuthorization(headers, api_key) ==
    LET kept == [headers EXCEPT !["host"] = Absent]
        authed == IF api_key \notin {NoneStr, ""}
                  THEN [kept EXCEPT !["x-api-key"] = api_key]
                  ELSE kept
    IN  IF authed["anthropic-version"] = Absent
        THEN [authed EXCEPT !["anthropic-version"] = "2023-06-01"]
        ELSE authed

\* The headers of the POST (server.py:1602-1619): the inbound headers
\* without host; with a key in the environment, x-api-key is that key and
\* authorization is removed; anthropic-version is set when it is missing.
forward_headers(headers, api_key) ==
    LET kept == [headers EXCEPT !["host"] = Absent]
        authed == IF api_key \notin {NoneStr, ""}
                  THEN [kept EXCEPT !["x-api-key"] = api_key,
                                    !["authorization"] = Absent]
                  ELSE kept
    IN  IF authed["anthropic-version"] = Absent
        THEN [authed EXCEPT !["anthropic-version"] = "2023-06-01"]
        ELSE authed

\* The endpoint for the path /v1/messages (server.py:1576-1580).
anthropic_url == "https://api.anthropic.com/v1/messages"

\* create_message with the proxy disabled (server.py:1724-1727):
\* forward_to_anthropic up to its POST (server.py:1556-1629).
ForwardToAnthropic ==
    /\ request # NoRequest
    /\ reply.kind = "none"
    /\ invocations = NoInvocation
    /\ ~current_config.proxy_enabled
    /\ debug_logs' = add_debug_log(debug_logs,
          [type |-> "request", stop_reason |-> NoneStr,
           input_tokens |-> 0, output_tokens |-> 0])
    /\ forwarded' = [posted |-> TRUE, url |-> anthropic_url,
                     headers |-> forward_headers(raw_request.headers, ANTHROPIC_API_KEY),
                     body |-> raw_request.body, status_code |-> 0, text |-> Absent]
    /\ invocations' = [invocations EXCEPT !.anthropic = @ + 1]
    /\ UNCHANGED <<streamVars, configVars, routed, requestVars, ANTHROPIC_API_KEY, suspended,
                   conversation_calls,
                   raw_request, litellm_response, anthropic_response, reply>>

\* The bodies of the answers of api.anthropic.com: a JSON document and a
\* body that is not JSON.
AnthropicBodies == {"{\"type\": \"message\"}", "<html>"}

is_json(text) == text = "{\"type\": \"message\"}"

AnthropicStatusCodes == {200, 201, 400, 429, 529}

\* The POST was answered: the rest of forward_to_anthropic
\* (server.py:1631-1715) and the except branch of create_message for the
\* HTTPException it raises (server.py:2064-2136).
AnthropicAnswers(status_code, text) ==
    /\ forwarded.posted
    /\ forwarded.status_code = 0
    /\ reply.kind = "none"
    /\ forwarded' = [forwarded EXCEPT !.status_code = status_code, !.text = text]
    /\ IF status_code # 200
       THEN /\ debug_logs' = add_debug_log(debug_logs, ErrorLog)
            /\ reply' = Reply("error", status_code, text)
       ELSE IF request.stream
       THEN /\ debug_logs' = add_debug_log(debug_logs, ResponseLog("end_turn", 0, 0))
            /\ reply' = Reply("stream", 200, text)
       ELSE IF is_json(text)
       THEN /\ debug_logs' = add_debug_log(debug_logs, ResponseLog(NoneStr, 0, 0))
            /\ reply' = Reply("response", 200, text)
       ELSE /\ debug_logs' = add_debug_log(debug_logs, ErrorLog)
            /\ reply' = Reply("error", 500, "JSONDecodeError")
    /\ UNCHANGED <<streamVars, configVars, routed, requestVars, ANTHROPIC_API_KEY, suspended,
                   conversation_calls,
                   raw_request, invocations, litellm_response, anthropic_response>>

\* The POST raised (no connection, or the 300 s timeout of the client):
\* the except branches of forward_to_anthropic and create_message
\* (server.py:1710-1715, 2064-2136).
AnthropicUnreachable ==
    /\ forwarded.posted
    /\ forwarded.status_code = 0
    /\ reply.kind = "none"
    /\ debug_logs' = add_debug_log(debug_logs, ErrorLog)
    /\ reply' = Reply("error", 500, "httpx")
    /\ UNCHANGED <<streamVars, configVars, routed, requestVars, ANTHROPIC_API_KEY, suspended,
                   conversation_calls,
                   raw_request, forwarded, invocations, litellm_response,
                   anthropic_response>>

(* --------------------- one request, either way out --------------------- *)

\* The headers a client sends: host and user-agent always, each of the
\* credentials and the version or not.
InboundHeaders ==
    {[h \in HeaderNames |->
         CASE h = "host" -> "localhost:8082"
           [] h = "user-agent" -> "cli"
           [] h = "x-api-key" -> k
           [] h = "authorization" -> a
           [] OTHER -> v] :
       k \in {Absent, "sk-client"}, a \in {Absent, "Bearer tok"},
       v \in {Absent, "2023-06-01", "2023-01-01"}}

\* The values of the environment variable ANTHROPIC_API_KEY
\* (server.py:78): unset, empty, a key.
ApiKeys == {NoneStr, "", "sk-ant-env"}

\* The conversations of the requests served: a plain one, and one whose
\* tool result has a text item that is not a string.
ForwardMessages ==
    {Message("user", TRUE, "hi", <<>>),
     Message("user", FALSE, "",
             <<ToolResultBlock(tool_id(0),
                  ResultContent("list", "", <<ResultItem("text", BadContent)>>))>>)}

\* The backend responses of the requests served: those without tool calls
\* that finished with "stop".
ForwardResponses ==
    {r \in LitellmResponses :
        r.has_choice /\ Len(r.tool_calls) = 0 /\ r.finish_reason = "stop"}

ForwardInit ==
    /\ StreamInit
    /\ ConfigInit(Providers)
    /\ status_read = StatusUnread
    /\ \E msg \in ForwardMessages, stream \in BOOLEAN :
          request = [BaseRequest(<<"claude-2.1">>) EXCEPT !.messages = <<msg>>,
                                                          !.stream = stream]
    /\ litellm_request = NotCalled
    /\ ANTHROPIC_API_KEY \in ApiKeys
    /\ \E headers \in InboundHeaders :
          raw_request = [headers |-> headers, body |-> "{\"model\": \"claude-2.1\"}"]
    /\ forwarded = NotForwarded
    /\ invocations = NoInvocation
    /\ litellm_response = NoLitellmResponse
    /\ anthropic_response = NoAnthropicResponse
    /\ reply = NoReply
    /\ conversation_calls = <<>>
    /\ suspended = IdleStream

ForwardNext ==
    \/ /\ invocations = NoInvocation /\ reply.kind = "none"
       /\ ToggleProxy
    \/ ForwardToAnthropic
    \/ \E status_code \in AnthropicStatusCodes, text \in AnthropicBodies :
          AnthropicAnswers(status_code, text)
    \/ AnthropicUnreachable
    \/ CreateMessage
    \/ /\ litellm_request.called /\ litellm_response.kind = "none"
       /\ \E response \in ForwardResponses : Completion(response)
    \/ StreamingReply
    \/ \E status_code \in LitellmErrors : CompletionRaises(status_code)

\* One request to /v1/messages, with the proxy enabled or disabled before
\* it arrives, from the handler to its reply.
SpecForward == ForwardInit /\ [][ForwardNext]_vars

\* The static credential is configured (server.py:1561).
has_env_api_key == ANTHROPIC_API_KEY \notin {NoneStr, ""}

\* C28 (as stated): the forwarded body is the inbound body and the
\* forwarded headers are the inbound headers without Host, with x-api-key
\* set to the static credential and Authorization removed when that
\* credential is configured; no other header is added, removed or altered.
C28_NoOtherHeader ==
    forwarded.posted =>
       /\ forwarded.body = raw_request.body
       /\ \A h \in HeaderNames :
             forwarded.headers[h] =
                CASE h = "host" -> Absent
                  [] h = "x-api-key" /\ has_env_api_key -> ANTHROPIC_API_KEY
                  [] h = "authorization" /\ has_env_api_key -> Absent
                  [] OTHER -> raw_request.headers[h]

\* C28 (amended): as above, except that anthropic-version: 2023-06-01 is
\* added when the inbound request has no anthropic-version header.
C28_ForwardedVerbatim ==
    forwarded.posted =>
       /\ forwarded.body = raw_request.body
       /\ \A h \in HeaderNames :
             forwarded.headers[h] =
                CASE h = "host" -> Absent
                  [] h = "x-api-key" /\ has_env_api_key -> ANTHROPIC_API_KEY
                  [] h = "authorization" /\ has_env_api_key -> Absent
                  [] h = "anthropic-version" /\ raw_request.headers[h] = Absent
                       -> "2023-06-01"
                  [] OTHER -> raw_request.headers[h]

\* A request with both credentials of the client was forwarded while the
\* static credential was configured.
C28_Witness ==
    /\ forwarded.posted
    /\ has_env_api_key
    /\ raw_request.headers["x-api-key"] = "sk-client"
    /\ raw_request.headers["authorization"] = "Bearer tok"
    /\ raw_request.headers["anthropic-version"] = "2023-01-01"

\* C29: a forwarded request is answered with an error, carrying the
\* upstream status code and body text, exactly when the upstream status is
\* not 2xx; every 2xx status is a success.
C29_ErrorIffNot2xx ==
    (forwarded.posted /\ forwarded.status_code # 0 /\ reply.kind # "none") =>
       /\ reply.kind = "error" <=> forwarded.status_code \notin 200..299
       /\ reply.kind = "error" =>
             /\ reply.status_code = forwarded.status_code
             /\ reply.detail = forwarded.text

\* C30: a request that was answered made at most one upstream invocation:
\* exactly one translated call and no forward when routing is enabled,
\* exactly one forward and no translated call when it is disabled.
C30_OneInvocation ==
    /\ invocations.litellm + invocations.anthropic <= 1
    /\ reply.kind # "none" =>
          IF current_config.proxy_enabled
          THEN invocations = [litellm |-> 1, anthropic |-> 0]
          ELSE invocations = [litellm |-> 0, anthropic |-> 1]

(* ----------------------- the conversation history ---------------------- *)

\* The conversations recorded: one user message; a tool round with an
\* assistant message between two user messages; a user message whose
\* text is blank.
HistoryConversations ==
    {<<Message("user", TRUE, "hi", <<>>)>>,
     <<Message("user", TRUE, "hi", <<>>),
       Message("assistant", FALSE, "",
               <<TextBlock("hi"), ToolUseBlock(tool_id(0), tool_name(0), "a=1")>>),
       Message("user", FALSE, "",
               <<ToolResultBlock(tool_id(0), ResultContent("str", "42", <<>>))>>)>>,
     <<Message("user", FALSE, "", <<TextBlock(" ")>>)>>}

\* The fragments of the streamed replies: text, a tool call, and a finish
\* with and without text.
HistoryChunks ==
    {Chunk(TRUE, "He", <<>>, NoneStr, FALSE, 0),
     Chunk(TRUE, "llo", <<>>, "stop", FALSE, 0),
     Chunk(TRUE, NoneStr, <<>>, "stop", FALSE, 0),
     Chunk(TRUE, NoneStr, <<ToolCall(0, FALSE, "{\"a\":1}")>>, NoneStr, FALSE, 0),
     Chunk(TRUE, NoneStr, <<ToolCall(0, FALSE, "{\"a\":1}")>>, "tool_calls", FALSE, 0)}

HistoryInit ==
    /\ StreamInit
    /\ ConfigInit(Providers)
    /\ status_read = StatusUnread
    /\ \E messages \in HistoryConversations, stream \in BOOLEAN :
          request = [BaseRequest(<<"claude-2.1">>) EXCEPT !.messages = messages,
                                                          !.stream = stream]
    /\ litellm_request = NotCalled
    /\ ExchangeIdle

\* create_message with the proxy enabled; for a streaming request the
\* StreamingResponse then runs handle_streaming over the fragments.
HistoryNext ==
    \/ CreateMessage
    \/ /\ litellm_request.called /\ litellm_response.kind = "none"
       /\ \E response \in ForwardResponses : Completion(response)
    \/ \E status_code \in LitellmErrors : CompletionRaises(status_code)
    \/ StreamingReply
    \/ reply.kind = "stream" /\ StreamStart
    \/ reply.kind = "stream" /\ \E chunk \in HistoryChunks : ProcessChunk(chunk)
    \/ reply.kind = "stream" /\ UpstreamExhausted
    \/ reply.kind = "stream" /\ UpstreamRaises

\* One request with the proxy enabled, streaming or not, from
\* create_message to the end of its reply.
SpecHistory == HistoryInit /\ [][HistoryNext]_vars

\* The reply of the request is complete.
C31_Handled == reply.kind = "response" \/ (reply.kind = "stream" /\ pc = "done")

C31_Calls(role) ==
    Cardinality({k \in 1..Len(conversation_calls) : conversation_calls[k].role = role})

C31_UserMessages ==
    Cardinality({i \in 1..Len(request.messages) : request.messages[i].role = "user"})

\* C31: for a handled request, streaming or not, add_conversation_message
\* was called exactly once for each user message of the request and exactly
\* once for the completed assistant reply, and it is not called before the
\* reply is complete.
C31_RecordedOnce ==
    /\ C31_Handled =>
          /\ C31_Calls("user") = C31_UserMessages
          /\ C31_Calls("assistant") = 1
    /\ (reply.kind = "stream" /\ pc \in {"created", "loop"}) => conversation_calls = <<>>

(* ------------------------ two streams in flight ------------------------ *)

\* The fragments each of two concurrent calls reads at most.
MaxFragments == 2

\* A resumed call that finds the text-closed flag of the call that ran
\* before it.
resumed_frame_SharedFlag(frame, running) ==
    [frame EXCEPT !.text_block_closed = running.text_block_closed]

\* The locals a handle_streaming call finds when the event loop resumes
\* it: its own, whatever call ran in between (server.py:1182-1195 are
\* assignments to locals of the generator).
resumed_frame(frame, running) == frame

\* The event loop suspends the running handle_streaming call at its await
\* and resumes the other one.
SwitchTask ==
    /\ suspended' = StreamState
    /\ LET frame == resumed_frame(suspended, StreamState)
       IN
       /\ pc' = frame.pc
       /\ consumed' = frame.consumed
       /\ unread' = frame.unread
       /\ out' = frame.out
       /\ tool_index' = frame.tool_index
       /\ anthropic_tool_index' = frame.anthropic_tool_index
       /\ last_tool_index' = frame.last_tool_index
       /\ tool_content' = frame.tool_content
       /\ accumulated_text' = frame.accumulated_text
       /\ full_response_text' = frame.full_response_text
       /\ text_sent' = frame.text_sent
       /\ text_block_closed' = frame.text_block_closed
       /\ input_tokens' = frame.input_tokens
       /\ output_tokens' = frame.output_tokens
       /\ has_sent_stop_reason' = frame.has_sent_stop_reason
       /\ stop_reason' = frame.stop_reason
    /\ UNCHANGED <<debug_logs, configVars, routed, requestVars, ANTHROPIC_API_KEY,
                   raw_request, forwarded, invocations, litellm_response,
                   anthropic_response, reply, conversation_calls>>

\* The fragments of the two streams: text, a tool call at backend index 0
\* and one at MaxToolIdx, and a finish with and without text.
StreamsChunks ==
    {Chunk(TRUE, "He", <<>>, NoneStr, FALSE, 0),
     Chunk(TRUE, NoneStr, <<ToolCall(0, FALSE, "{\"a\":1}")>>, NoneStr, FALSE, 0),
     Chunk(TRUE, NoneStr, <<ToolCall(MaxToolIdx, TRUE, "a=1")>>, NoneStr, FALSE, 0),
     Chunk(TRUE, "llo", <<>>, "stop", FALSE, 0),
     Chunk(TRUE, NoneStr, <<>>, "tool_calls", TRUE, 7)}

StreamsNext ==
    \/ StreamStart
    \/ /\ Len(consumed) < MaxFragments
       /\ \E chunk \in StreamsChunks : ProcessChunk(chunk)
    \/ UpstreamExhausted
    \/ UpstreamRaises
    \/ SwitchTask

\* Two handle_streaming calls on one event loop, their steps interleaved
\* in every order.
SpecStreams == Init /\ [][StreamsNext]_vars

RECURSIVE C32_RunAlone(_)
\* The locals of a call that ran alone and read the fragments `chunks`.
C32_RunAlone(chunks) ==
    IF chunks = <<>>
    THEN [IdleStream EXCEPT !.pc = "loop", !.out = <<MessageStart, TextBlockStart, Ping>>]
    ELSE process_chunk(C32_RunAlone(SubSeq(chunks, 1, Len(chunks) - 1)),
                       chunks[Len(chunks)])

\* The events of a call that ran alone, read the fragments of `st` and
\* ended the way `st` ended.
C32_AloneOut(st) ==
    LET alone == C32_RunAlone(st.consumed)
    IN  IF st.pc = "created" THEN <<>>
        ELSE IF st.pc = "loop" THEN alone.out
        ELSE IF st.pc = "failed" THEN alone.out \o ErrorEvents
        ELSE IF alone.pc = "done" THEN alone.out
        ELSE alone.out \o ExhaustedEvents(alone.tool_index, alone.last_tool_index,
                                          alone.output_tokens)

C33_OpenBefore(events, i, index) ==
    \E j \in 1..(i - 1) :
       /\ events[j].type = "content_block_start" /\ events[j].index = index
       /\ \A k \in (j + 1)..(i - 1) :
             ~(events[k].type = "content_block_stop" /\ events[k].index = index)

\* C33: every content_block_delta is emitted for a block index that was
\* opened by a content_block_start and not closed by a content_block_stop
\* since; so no text delta is emitted on index 0 after the first tool call
\* closed block 0.
C33_DeltaInOpenBlock ==
    \A i \in 1..Len(out) :
       out[i].type = "content_block_delta" => C33_OpenBefore(out, i, out[i].index)

\* A fragment with text was read after a tool call had closed block 0, and
\* the stream holds a text delta and a tool delta.
C33_Witness ==
    /\ \E i, j \in 1..Len(consumed) :
          /\ i < j
          /\ consumed[i].has_choices /\ consumed[i].tool_calls # <<>>
          /\ consumed[j].has_choices /\ consumed[j].content \in Texts
    /\ \E i \in 1..Len(out) : IsTextDelta(out[i])
    /\ \E i \in 1..Len(out) :
          out[i].type = "content_block_delta" /\ out[i].kind = "input_json_delta"

(* -------------------- the validator of count_tokens -------------------- *)

\* C34: for the token a request was validated with and the alias
\* configuration in force, the validator of TokenCountRequest and the
\* validator of MessagesRequest both resolve the token, and to the same
\* model id.
C34_SameResolution ==
    routed.token # <<>> =>
       LET messages == validate_model_field(routed.token, get_status)
           count == validate_model_token_count(routed.token, get_status)
       IN  /\ messages.error = NoneStr
           /\ count.error = NoneStr
           /\ messages.model = count.model

(* --------------- alias updates while a request is in flight ------------- *)

\* The "config" entries of the debug log: one per successful alias update.
config_logs(logs) == SelectSeq(logs, LAMBDA entry : entry.type = "config")

InflightInit ==
    /\ StreamInit
    /\ ConfigInit(Providers)
    /\ status_read = StatusUnread
    /\ \E m \in MessageModels, stream \in BOOLEAN :
          request = [BaseRequest(m) EXCEPT !.stream = stream]
    /\ litellm_request = NotCalled
    /\ ExchangeIdle

\* create_message and its reply, streaming or not, with the console
\* changing the aliases and the proxy switch at any moment after the
\* upstream call was made.
InflightNext ==
    \/ CreateMessage
    \/ /\ litellm_request.called /\ litellm_response.kind = "none"
       /\ \E response \in ForwardResponses : Completion(response)
    \/ \E status_code \in LitellmErrors : CompletionRaises(status_code)
    \/ StreamingReply
    \/ reply.kind = "stream" /\ StreamStart
    \/ /\ reply.kind = "stream" /\ Len(consumed) < MaxFragments
       /\ \E chunk \in HistoryChunks : ProcessChunk(chunk)
    \/ reply.kind = "stream" /\ UpstreamExhausted
    \/ reply.kind = "stream" /\ UpstreamRaises
    \/ /\ litellm_request.called /\ Len(config_logs(debug_logs)) < MaxConfigLogs
       /\ \E n \in DOMAIN presets \cup {"absent"} : ApplyPreset(n)
    \/ /\ litellm_request.called /\ Len(config_logs(debug_logs)) < MaxConfigLogs
       /\ \E b \in ModelNames : SetModels(b, "gpt-4o-mini")
    \/ litellm_request.called /\ ToggleProxy

SpecInflight == InflightInit /\ [][InflightNext]_vars

(* --------------------------------- C35 --------------------------------- *)

ConsoleNext ==
    \/ \E n \in DOMAIN presets \cup {"absent"} :
          Len(debug_logs) < MaxConfigLogs /\ ApplyPreset(n)
    \/ \E b, m \in ModelNames : Len(debug_logs) < MaxConfigLogs /\ SetModels(b, m)
    \/ \E config \in ConfigDocs : Len(debug_logs) < MaxConfigLogs /\ LoadConfig(config)
    \/ ToggleProxy

SpecConsole == RouterInit /\ [][ConsoleNext]_vars

(* --------------------------------- C36 --------------------------------- *)

\* Both models a call asked for are known and their providers have
\* credentials, and the preset asked for (if any) exists.
C36_Valid(call) ==
    /\ call.preset_name = NoneStr \/ call.preset_name \in DOMAIN presets
    /\ validate_model(available, call.big_model)
    /\ validate_model(available, call.small_model)

\* C36: set_models, apply_preset and load_config return True exactly when
\* both requested models are valid (and the preset exists); a call that
\* returned False left big_model, small_model and current_preset as they
\* were, and after a call that returned True the three hold the requested
\* models and the applied preset (none for set_models and load_config).
C36_AllOrNothing ==
    [][LET call == config_result'
       IN  call.called =>
             /\ call.result = C36_Valid(call)
             /\ IF call.result
                THEN /\ current_config'.big_model = call.big_model
                     /\ current_config'.small_model = call.small_model
                     /\ current_config'.current_preset = call.preset_name
                ELSE /\ current_config'.big_model = current_config.big_model
                     /\ current_config'.small_model = current_config.small_model
                     /\ current_config'.current_preset
                           = current_config.current_preset]_vars

\* A call whose big model is valid and whose small model is not returned
\* False, after an update that had succeeded.
C36_Witness ==
    /\ config_result.called
    /\ ~config_result.result
    /\ validate_model(available, config_result.big_model)
    /\ ~validate_model(available, config_result.small_model)
    /\ config_result.big_model # current_config.big_model
    /\ Len(debug_logs) > 0

(* --------------------------------- C37 --------------------------------- *)

\* C37: for a backend response with a well-typed text and usage, the
\* content returned holds the text block first when the text is not empty,
\* then one tool_use block per tool call of the backend, in its order, with
\* the id and the name of the call, whatever the arguments string is.
C37_TextThenToolUses ==
    (/\ reply.kind = "response"
     /\ litellm_response.has_choice
     /\ litellm_response.content # BadContent
     /\ litellm_response.usage.prompt_tokens # NoneIdx
     /\ litellm_response.usage.completion_tokens # NoneIdx) =>
        LET calls == litellm_response.tool_calls
            has_text == litellm_response.content \notin {NoneStr, ""}
            n == IF has_text THEN 1 ELSE 0
            blocks == anthropic_response.content
        IN  (has_text \/ calls # <<>>) =>
              /\ Len(blocks) = n + Len(calls)
              /\ has_text => /\ blocks[1].type = "text"
                             /\ blocks[1].text = litellm_response.content
              /\ \A i \in 1..Len(calls) :
                    /\ blocks[n + i].type = "tool_use"
                    /\ calls[i].id # Absent => blocks[n + i].id = calls[i].id
                    /\ calls[i].name # Absent => blocks[n + i].name = calls[i].name

(* ------------------------- parameter names and schemas ------------------ *)

\* The names the parameters of the tools are given: an ordinary one and
\* the two that are also JSON-schema keywords.
ParameterNames == {"q", "default", "additionalProperties"}

\* An object schema declaring the parameters `names`, each with the
\* schema `child`.
ParametersSchema(names, child, closed) ==
    JDict(<<Pair("type", JStr("object")),
            Pair("properties",
                 JDict([i \in 1..Len(names) |-> Pair(names[i], child)]))>>
          \o (IF closed THEN <<Pair("additionalProperties", JOther("false"))>>
              ELSE <<>>))

\* The tool schemas with one or two parameters.
NamedSchemas ==
    {ParametersSchema(names, child, closed) :
        names \in {<<a>> : a \in ParameterNames}
                  \cup {<<"q", b>> : b \in ParameterNames \ {"q"}},
        child \in SchemasTo(MaxDepth - 1), closed \in BOOLEAN}

SchemaInit ==
    /\ StreamInit
    /\ ConfigInit(Providers)
    /\ status_read = StatusUnread
    /\ \E m \in {<<"gemini/", "gemini-1.5-pro">>, <<"claude-2.1">>},
          schema \in NamedSchemas :
          request = [BaseRequest(m) EXCEPT
                       !.tools = <<[name |-> tool_name(0), input_schema |-> schema]>>]
    /\ litellm_request = NotCalled
    /\ ExchangeIdle

SchemaNext == CreateMessage

\* The translation of a request with one tool, for a Gemini model id (the
\* schema is cleaned) and for another one.
SpecSchema == SchemaInit /\ [][SchemaNext]_vars

(* --------------------------------- C38 --------------------------------- *)

\* The parameter names a schema declares, each with the path of keys that
\* leads to its `properties` map.
RECURSIVE C38_Parameters(_, _)
C38_Parameters(node, path) ==
    IF node.kind \notin {"dict", "list"} THEN {}
    ELSE UNION {LET e == node.items[i]
                    at == path \o <<IF node.kind = "list" THEN ToString(i) ELSE e.k>>
                IN  IF node.kind = "dict" /\ e.k = "properties" /\ e.v.kind = "dict"
                    THEN {at \o <<e.v.items[j].k>> : j \in 1..Len(e.v.items)}
                         \cup UNION {C38_Parameters(e.v.items[j].v,
                                                    at \o <<e.v.items[j].k>>) :
                                       j \in 1..Len(e.v.items)}
                    ELSE C38_Parameters(e.v, at) :
                i \in 1..Len(node.items)}

\* C38: the schema sent to a Gemini model declares, under every properties
\* map, the parameter names the tool declared there, and cleaning it once
\* more changes nothing.
C38_ParametersKept ==
    (litellm_request.called /\ startswith(request.model, "gemini/")) =>
        \A i \in 1..Len(request.tools) :
            LET sent == litellm_request.tools[i].parameters
            IN  /\ C38_Parameters(sent, <<>>)
                      = C38_Parameters(request.tools[i].input_schema, <<>>)
                /\ clean_gemini_schema(sent) = sent

(* ------------------------------ the debug log --------------------------- *)

\* The last reading of the clock (datetime.now() of config.py:258) explored.
MaxClock == 53

\* add_debug_log called at `timestamp`: the clock only moves forward, and
\* here one tick per entry; the first entry of an empty log is written at
\* any of the first readings.
AddDebugLog(timestamp) ==
    /\ IF debug_logs = <<>> THEN timestamp <= MaxClock - max_debug_logs
       ELSE timestamp = debug_logs[Len(debug_logs)].timestamp + 1
    /\ debug_logs' = add_debug_log(debug_logs,
                                   [timestamp |-> timestamp, type |-> "request"])
    /\ UNCHANGED <<streamVars, configVars, routed, requestVars, exchangeVars>>

\* ConfigManager.clear_debug_logs
ClearDebugLogs ==
    /\ debug_logs' = <<>>
    /\ UNCHANGED <<streamVars, configVars, routed, requestVars, exchangeVars>>

DebugLogNext ==
    \/ \E timestamp \in 1..MaxClock : AddDebugLog(timestamp)
    \/ ClearDebugLogs

\* add_debug_log and clear_debug_logs called one after another in any order.
SpecDebugLog == RouterInit /\ [][DebugLogNext]_vars

(* --------------------------------- C39 --------------------------------- *)

\* C39: the debug log never holds more than 50 entries, and every call
\* leaves it empty (clear_debug_logs) or holding the entries it held with
\* the entry just added after them, less the oldest ones beyond 50: the
\* most recent entries added since the last clear, in insertion order.
C39_MostRecentEntries ==
    [][/\ Len(debug_logs') <= 50
       /\ debug_logs' # debug_logs =>
             \/ debug_logs' = <<>>
             \/ LET added == Append(debug_logs, debug_logs'[Len(debug_logs')])
                    kept == Min(Len(added), 50)
                IN  /\ debug_logs # <<>> =>
                          debug_logs'[Len(debug_logs')].timestamp
                             > debug_logs[Len(debug_logs)].timestamp
                    /\ debug_logs' = SubSeq(added, Len(added) - kept + 1, Len(added))
      ]_vars

\* The log is full and its oldest entry was written after every reading
\* at which a log can start: older entries were dropped.
C39_Witness ==
    /\ Len(debug_logs) = max_debug_logs
    /\ debug_logs[1].timestamp > MaxClock - max_debug_logs

====
